---------------------------- MODULE Spec2Model ----------------------------
(***************************************************************************)
(* A model of the SillyTavern proxy middleware's resilience layer:         *)
(*   - ErrorHandler (src/error_handler.py): classification, backoff delay, *)
(*     retry_with_backoff and retry_with_conditional_logic;                *)
(*   - ProxyClient.forward_request (src/proxy_client.py): one upstream     *)
(*     exchange with hard-stop matching, status recategorization,          *)
(*     response rewriting and the blank-completion re-issue;               *)
(*   - the regex rewriting helpers (src/src/first_hop_proxy/utils.py).     *)
(*                                                                         *)
(* Text is modelled as a sequence of words; a regular expression is        *)
(* modelled by the literal word sequence it searches for.                  *)
(***************************************************************************)
EXTENDS Integers, Sequences, FiniteSets, TLC

VARIABLES
    \* ---- one retry sequence (ErrorHandler + ProxyClient) ----
    mode,          \* "backoff" | "conditional": the coordinator entry point
    max_retries,   \* ErrorHandler.max_retries
    hasLogger,     \* ErrorHandler.error_logger is not None
    loggerRaises,  \* a call of the error logger may raise instead of returning
    reply,         \* what the HTTP endpoint answered its client once the sequence is over
    endpoint,      \* context["endpoint"] of the sequence
    stream,        \* request_data["stream"]
    cfg,           \* the ProxyClient's configuration profile
    attempt,       \* the loop variable of the coordinator (1-based)
    pc,            \* "call" | "exchange" | "returned" | "sleep" | "done" | "idle"
    retry_count,   \* forward_request's retry_count argument (-1 models None)
    resp,          \* the upstream response of the last exchange
    funcOutcome,   \* how the attempt operation ended
    result,        \* how the retry sequence ended
    trace,         \* coordinator events: call, log_error, log_retry, sleep, log_final
    delay,         \* the delay of the pending sleep, in units of 1 / (2 * DelayUnit)
    exchanges,     \* upstream exchanges made in the whole sequence
    callExchanges, \* upstream exchanges made inside the current attempt
    blankSeen,     \* exchanges of the current attempt the blank guard found blank
    onlyRetryable, \* every failure seen so far was of a retryable class
    hardStopAt,    \* index of the exchange whose response matched a hard stop (0: none)
    \* ---- calculate_retry_delay as a pure function ----
    dBase, dMax, dAttempt, dJitter, dResult,
    \* ---- regex rewriting as pure functions ----
    rText, rMessages, rRules, rOut, rpc,
    rResponse,     \* the response_data handed to process_response_with_regex
    rResponseOut,  \* how that call ended and what it returned
    callers,       \* the retry sequences that share the ErrorLogger
    max_files,     \* ErrorLogger.max_files
    folder,        \* the .log files of the error-log folder
    clock,         \* the time in milliseconds, which names and dates the files
    lpc,           \* where each caller stands in log_error
    listing,       \* os.listdir as each caller last saw it
    log_files,     \* each caller's log_files list, oldest first
    idx,           \* each caller's index in the loop it is in
    calls,         \* the calls of log_error started so far
    finished,      \* the calls of log_error that are over
    raced,         \* the callers whose rotation hit a file another call took away
    \* ---- ResponseParser.parse_and_recategorize as a pure function ----
    pBody,         \* the response body handed to the parser
    pStatus,       \* the observed status handed to the parser
    pParsing,      \* the parser's response_parsing configuration
    pOut,          \* what the parser returned
    ppc,           \* "parse" | "done" | "idle"
    \* ---- two client requests served at the same time ----
    requests,      \* the local state of each request's retry sequence
    actor,         \* the request whose step was taken last (0: none yet)
    \* ---- ProxyClient._is_blank_response as a pure function ----
    bBody,         \* the response_json handed to _is_blank_response
    bOut,          \* what it returned
    bpc,           \* "check" | "done" | "idle"
    \* ---- one call of ErrorLogger.log_error ----
    eLogger,       \* the settings of the ErrorLogger that is called
    eCall,         \* the arguments of the call and whether the file can be written
    eOut,          \* how the call ended
    epc            \* "call" | "done" | "idle"

retryVars == <<mode, max_retries, hasLogger, loggerRaises, reply, endpoint, stream, cfg, attempt, pc,
               retry_count, resp, funcOutcome, result, trace, delay, exchanges,
               callExchanges, blankSeen, onlyRetryable, hardStopAt>>
delayVars == <<dBase, dMax, dAttempt, dJitter, dResult>>
regexVars == <<rText, rMessages, rRules, rOut, rpc, rResponse, rResponseOut>>
fileVars == <<callers, max_files, folder, clock, lpc, listing, log_files, idx, calls,
              finished, raced>>
parserVars == <<pBody, pStatus, pParsing, pOut, ppc>>
requestVars == <<requests, actor>>
blankVars == <<bBody, bOut, bpc>>
logCallVars == <<eLogger, eCall, eOut, epc>>
vars == <<retryVars, delayVars, regexVars, fileVars, parserVars, requestVars, blankVars,
          logCallVars>>

-----------------------------------------------------------------------------
(* Bounds of the model.                                                    *)
MaxRetriesBound == 2
MaxBaseDelay == 2
MaxMaxDelay == 3
MaxDelayAttempt == 4
MaxRules == 2
MaxMessages == 2
MaxChoices == 2
MaxFilesBound == 2
MaxInitialFiles == 3
MaxCalls == 3
MaxTicks == 2

-----------------------------------------------------------------------------
(* Words and text.                                                         *)

Min(a, b) == IF a <= b THEN a ELSE b

RECURSIVE Pow2(_)
Pow2(n) == IF n <= 0 THEN 1 ELSE 2 * Pow2(n - 1)

\* str.lower() on one word.
Lower(w) ==
    CASE w = "Hello" -> "hello"
      [] w = "I" -> "i"
      [] w = "Cannot" -> "cannot"
      [] w = "OVERLOADED" -> "overloaded"
      [] w = "User" -> "user"
      [] w = "USER" -> "user"
      [] w = "Assistant" -> "assistant"
      [] w = "ALL" -> "all"
      [] w = "googleAIBlockingResponseHandler" -> "googleaiblockingresponsehandler"
      [] w = "I'm" -> "i'm"
      [] w = "Content" -> "content"
      [] w = "Safety" -> "safety"
      [] w = "Inappropriate" -> "inappropriate"
      [] OTHER -> w

LowerText(t) == [i \in 1..Len(t) |-> Lower(t[i])]

\* str.strip() == "": nothing but whitespace.
IsWhitespaceOnly(t) == \A i \in 1..Len(t) : t[i] = " "

\* re.search(pattern, text) for a literal pattern; `substring in text`.
Contains(t, p) == \E i \in 0..(Len(t) - Len(p)) : SubSeq(t, i + 1, i + Len(p)) = p

\* re.search(pattern, text, re.IGNORECASE).
SearchIgnoreCase(p, t) == Contains(LowerText(t), LowerText(p))

-----------------------------------------------------------------------------
(* ErrorHandler: classification tables and exception kinds.                *)

retry_codes == {429, 502, 503, 504, 505, 507, 508, 511, 408, 409, 410, 423, 424,
                425, 426, 428, 431, 451}
fail_codes == {400, 401, 403, 405, 406, 407, 411, 412, 413, 414, 415, 416, 417,
               418, 421, 422}
conditional_retry_codes == {404, 411, 412, 413, 414, 416, 417, 418, 421, 423, 424,
                            425, 426, 428, 431, 451}
conditional_retry_max_attempts == 2

\* base_delay and max_delay of the modelled sequence (the constructor's defaults).
base_delay == 1
max_delay == 60

\* An exception value: its class and, for an HTTPError carrying a response, the
\* response's status (0: no response attached).
Exc(k, st) == [exc |-> k, status |-> st]
NoExc == Exc("None", 0)

\* The classes an exception of class k is an instance of (its own and its bases),
\* as requests.exceptions, urllib3.exceptions and the builtins define them.
Bases(k) ==
    CASE k = "HTTPError" -> {"HTTPError", "RequestException", "OSError"}
      [] k = "Timeout" -> {"Timeout", "RequestException", "OSError"}
      [] k = "ConnectionError" -> {"ConnectionError", "RequestException", "OSError"}
      [] k = "ProxyError" -> {"ProxyError", "ConnectionError", "RequestException", "OSError"}
      [] k = "MissingSchema" -> {"MissingSchema", "RequestException", "OSError", "ValueError"}
      [] k = "InvalidURL" -> {"InvalidURL", "RequestException", "OSError", "ValueError"}
      [] k = "URLRequired" -> {"URLRequired", "RequestException", "OSError"}
      [] k = "TooManyRedirects" -> {"TooManyRedirects", "RequestException", "OSError"}
      [] k = "JSONDecodeError" -> {"JSONDecodeError", "ValueError"}
      [] k = "ValueError" -> {"ValueError"}
      [] k = "TypeError" -> {"TypeError"}
      [] k = "KeyError" -> {"KeyError", "LookupError"}
      [] OTHER -> {k}

IsInstance(e, classes) == Bases(e.exc) \cap classes # {}

network_retryable == {"Timeout", "ConnectionError", "RequestException", "gaierror",
                      "socket.timeout", "MaxRetryError", "ReadTimeoutError",
                      "ConnectTimeoutError", "ProtocolError", "DecodeError"}
ssl_retryable == {"urllib3.SSLError", "ssl.SSLError", "ssl.CertificateError"}
content_retryable == {"ContentDecodingError", "ChunkedEncodingError", "JSONDecodeError"}
non_retryable == {"URLRequired", "InvalidURL", "MissingSchema", "TooManyRedirects",
                  "ProxyError", "ValueError", "TypeError"}

should_retry(status) == status \in retry_codes
should_retry_conditionally(status) == status \in conditional_retry_codes
is_permanent_failure(status) == status \in fail_codes

should_retry_exception(e) ==
    IF IsInstance(e, network_retryable \cup ssl_retryable \cup content_retryable)
    THEN TRUE
    ELSE IF IsInstance(e, {"HTTPError"}) /\ e.status # 0
    THEN e.status \in retry_codes
    ELSE IF IsInstance(e, non_retryable)
    THEN FALSE
    ELSE FALSE

\* a variant of the context test that allows one retry of a 404 whatever the
\* endpoint; the calls-per-endpoint property is sensitive to it
ContextRetryAnyEndpoint(status, ep, n) == n <= 1

\* _should_retry_conditionally(status_code, context, attempt)
ContextRetry(status, ep, n) ==
    LET is_models_request == ep = "models" IN
    IF status = 404
    THEN (is_models_request /\ n <= 2) \/ (ep = "chat/completions" /\ n <= 1)
    ELSE IF status \in {408, 409, 410, 423, 424, 425, 426, 428} THEN n <= 2
    ELSE IF status \in {411, 412, 413, 414, 416, 417, 418, 421} THEN n <= 1
    ELSE IF status \in {431, 451} THEN n <= 2
    ELSE FALSE

-----------------------------------------------------------------------------
(* ErrorHandler.calculate_retry_delay.  random.uniform(-1, 1) is the draw  *)
(* u / JitterSteps with u in -JitterSteps..JitterSteps; a delay is counted *)
(* in units of 1 / DelayUnit so that the arithmetic stays exact.           *)
JitterSteps == 4
DelayUnit == 4 * JitterSteps

\* a variant of the delay without the cap; the delay-range property is sensitive
\* to it
UncappedDelay(n, base, maxd, u) == base * Pow2(n - 1) * (DelayUnit + u)

\* a variant whose jitter is a whole delay instead of a quarter of it; the growth
\* of the delay from one attempt to the next is sensitive to it
WideJitterDelay(n, base, maxd, u) ==
    LET d == base * Pow2(n - 1) * DelayUnit
        jitter == 4 * base * Pow2(n - 1) * u
    IN  Min(d + jitter, maxd * DelayUnit)

\* delay = base * 2^(n-1); delay += delay * 0.25 * u; min(delay, max)
calculate_retry_delay(n, base, maxd, u) ==
    LET d == base * Pow2(n - 1) * DelayUnit
        jitter == base * Pow2(n - 1) * u
    IN  Min(d + jitter, maxd * DelayUnit)

-----------------------------------------------------------------------------
(* utils.py: the regex rewriting engine.                                   *)
(* A rule is [pattern, valid, replacement, template, flags, apply_to]:     *)
(*   pattern   the literal the regular expression searches for (<<>>: the  *)
(*             rule has no pattern), valid: whether re.compile accepts it; *)
(*   template  how re.sub takes the replacement string: "literal",         *)
(*             "bad_group_number" (\1 with no group: re.error) or          *)
(*             "unknown_group_name" (\g<name> with no such group:          *)
(*             IndexError).                                                *)

Rule(p, ok, r, tpl, fl, to) ==
    [pattern |-> p, valid |-> ok, replacement |-> r, template |-> tpl,
     flags |-> fl, apply_to |-> to]

\* the exception classes the except clause of apply_regex_replacements names
CaughtByApply == {"re.error", "TypeError", "ValueError"}

\* what re.sub(pattern, replacement, text, flags) raises for this rule
ReSubError(rule) ==
    IF ~rule.valid THEN "re.error"
    ELSE IF rule.template = "bad_group_number" THEN "re.error"
    ELSE IF rule.template = "unknown_group_name" THEN "IndexError"
    ELSE "none"

\* re.sub for a literal pattern: every leftmost non-overlapping occurrence of p
\* in t is replaced by r; ic is re.IGNORECASE.
RECURSIVE ReSub(_, _, _, _)
ReSub(p, r, t, ic) ==
    IF Len(t) < Len(p) \/ Len(p) = 0 THEN t
    ELSE LET head == SubSeq(t, 1, Len(p))
             hit == IF ic THEN LowerText(head) = LowerText(p) ELSE head = p
         IN  IF hit
             THEN r \o ReSub(p, r, SubSeq(t, Len(p) + 1, Len(t)), ic)
             ELSE <<Head(t)>> \o ReSub(p, r, Tail(t), ic)

TextReturn(t) == [kind |-> "return", text |-> t, exc |-> "none"]
TextRaise(e) == [kind |-> "raise", text |-> <<>>, exc |-> e]

\* the loop of apply_regex_replacements from rule i on, result being the text so far
RECURSIVE ApplyRulesFrom(_, _, _)
ApplyRulesFrom(res, rules, i) ==
    IF i > Len(rules) THEN TextReturn(res)
    ELSE LET rule == rules[i]
             err == ReSubError(rule)
         IN  IF rule.pattern = <<>> THEN ApplyRulesFrom(res, rules, i + 1)
             ELSE IF err = "none"
             THEN ApplyRulesFrom(ReSub(rule.pattern, rule.replacement, res,
                                       rule.flags = "i"), rules, i + 1)
             ELSE IF err \in CaughtByApply THEN ApplyRulesFrom(res, rules, i + 1)
             ELSE TextRaise(err)

apply_regex_replacements(text, rules) ==
    IF text = <<>> \/ rules = <<>> THEN TextReturn(text)
    ELSE ApplyRulesFrom(text, rules, 1)

\* a variant of the apply_to filter that compares without lower-casing; the
\* rule-filter property is sensitive to it
RuleAppliesExact(rule, role) == rule.apply_to = "all" \/ rule.apply_to = role

\* the apply_to filter of process_messages_with_regex; role is already lower-cased
RuleApplies(rule, role) ==
    LET apply_to == Lower(rule.apply_to) IN apply_to = "all" \/ apply_to = role

RECURSIVE ApplicableRules(_, _)
ApplicableRules(rules, role) ==
    IF rules = <<>> THEN <<>>
    ELSE (IF RuleApplies(Head(rules), role) THEN <<Head(rules)>> ELSE <<>>)
         \o ApplicableRules(Tail(rules), role)

MsgsReturn(ms) == [kind |-> "return", msgs |-> ms, exc |-> "none"]
MsgsRaise(e) == [kind |-> "raise", msgs |-> <<>>, exc |-> e]

\* the loop of process_messages_with_regex from message i on
RECURSIVE ProcessMessagesFrom(_, _, _, _)
ProcessMessagesFrom(done, messages, rules, i) ==
    IF i > Len(messages) THEN MsgsReturn(done)
    ELSE LET message == messages[i]
             role == Lower(message.role)
             content == message.content
         IN  IF content = <<>>
             THEN ProcessMessagesFrom(Append(done, message), messages, rules, i + 1)
             ELSE LET out == apply_regex_replacements(content,
                                                      ApplicableRules(rules, role))
                  IN  IF out.kind = "raise" THEN MsgsRaise(out.exc)
                      ELSE ProcessMessagesFrom(
                               Append(done, [message EXCEPT !.content = out.text]),
                               messages, rules, i + 1)

\* response_data: an id, and choices when the key is present; a choice has a
\* finish_reason and, when the key is present, a message
Choice(finish_reason, hasMessage, message) ==
    [finish_reason |-> finish_reason, has_message |-> hasMessage, message |-> message]
ResponseData(id, hasChoices, choices) ==
    [id |-> id, has_choices |-> hasChoices, choices |-> choices]
NoResponseData == ResponseData("", FALSE, <<>>)
ResponseReturn(d) == [kind |-> "return", data |-> d, exc |-> "none"]
ResponseRaise(e) == [kind |-> "raise", data |-> NoResponseData, exc |-> e]
NoResponseOut == [kind |-> "none", data |-> NoResponseData, exc |-> "none"]

\* a variant that hands a choice only the rules meant for its message's role; the
\* frame property of the response is sensitive to it
ResponseRulesForRole(rules) == ApplicableRules(rules, "assistant")

\* the rules process_response_with_regex hands to apply_regex_replacements: all
ResponseRules(rules) == rules

\* the loop over the choices of process_response_with_regex from choice i on
RECURSIVE ProcessChoicesFrom(_, _, _, _)
ProcessChoicesFrom(done, choices, rules, i) ==
    IF i > Len(choices) THEN [kind |-> "return", choices |-> done, exc |-> "none"]
    ELSE LET choice == choices[i]
         IN  IF ~choice.has_message
             THEN ProcessChoicesFrom(Append(done, choice), choices, rules, i + 1)
             ELSE LET out == apply_regex_replacements(choice.message.content,
                                                      ResponseRules(rules))
                  IN  IF out.kind = "raise"
                      THEN [kind |-> "raise", choices |-> <<>>, exc |-> out.exc]
                      ELSE ProcessChoicesFrom(
                               Append(done, [choice EXCEPT !.message.content = out.text]),
                               choices, rules, i + 1)

\* process_response_with_regex(response_data, rules) on a response with choices
ProcessResponseData(response_data, rules) ==
    IF rules = <<>> THEN ResponseReturn(response_data)
    ELSE IF ~response_data.has_choices THEN ResponseReturn(response_data)
    ELSE LET out == ProcessChoicesFrom(<<>>, response_data.choices, rules, 1)
         IN  IF out.kind = "raise" THEN ResponseRaise(out.exc)
             ELSE ResponseReturn([response_data EXCEPT !.choices = out.choices])

\* frame property of the messages is sensitive to it
MessageAlias(i, n) == i

\* message.copy(): among the n objects of the input list, numbered 1..n, and the
\* copies made by the loop, the copy of object i is a new object
MessageCopy(i, n) == n + i

\* the loop reaches message i: no earlier message made apply_regex_replacements
\* raise
LoopReaches(messages, rules, i) ==
    \A j \in 1..(i - 1) :
        \/ messages[j].content = <<>>
        \/ apply_regex_replacements(
               messages[j].content,
               ApplicableRules(rules, Lower(messages[j].role))).kind = "return"

\* the objects of the input list once process_messages_with_regex is over:
\* `processed_message["content"] = processed_content` changes input object i when
\* processed_message is that object
MessagesAfter(messages, rules) ==
    IF messages = <<>> \/ rules = <<>> THEN messages
    ELSE [i \in 1..Len(messages) |->
            LET message == messages[i]
                out == apply_regex_replacements(
                           message.content, ApplicableRules(rules, Lower(message.role)))
            IN  IF /\ message.content # <<>>
                   /\ LoopReaches(messages, rules, i)
                   /\ out.kind = "return"
                   /\ MessageCopy(i, Len(messages)) = i
                THEN [message EXCEPT !.content = out.text]
                ELSE message]

\* the input response once process_response_with_regex is over: the response and
\* each choice are copied as well, and `message['content'] = processed_content`
\* changes the message of input choice i when message is that object
ResponseAfter(response_data, rules) ==
    IF rules = <<>> \/ ~response_data.has_choices THEN response_data
    ELSE LET choices == response_data.choices
             Out(i) == apply_regex_replacements(choices[i].message.content,
                                                ResponseRules(rules))
             Reached(i) == \A j \in 1..(i - 1) :
                               ~choices[j].has_message \/ Out(j).kind = "return"
         IN  [response_data EXCEPT !.choices =
                [i \in 1..Len(choices) |->
                    IF /\ choices[i].has_message
                       /\ Reached(i)
                       /\ Out(i).kind = "return"
                       /\ MessageCopy(i, Len(choices)) = i
                    THEN [choices[i] EXCEPT !.message.content = Out(i).text]
                    ELSE choices[i]]]

process_messages_with_regex(messages, rules) ==
    IF messages = <<>> \/ rules = <<>> THEN MsgsReturn(messages)
    ELSE ProcessMessagesFrom(<<>>, messages, rules, 1)

-----------------------------------------------------------------------------
(* Upstream responses.  A response is [status, fmt, content, note, finish, *)
(* tokens]; fmt tells the shape of the body:                               *)
(*   "completion"  {"object": "chat.completion", "choices": [{"message":   *)
(*                 {"content": content}, "finish_reason": finish}],        *)
(*                 "usage": {"completion_tokens": tokens}}                 *)
(*   "error"       {"error": {"message": content}, "proxy_note": note}     *)
(*   "text"        a body that is not JSON: the raw text is content        *)

Response(st, f, c, n, fin, tok) ==
    [status |-> st, fmt |-> f, content |-> c, note |-> n, finish |-> fin,
     tokens |-> tok]

NoResponse == Response(0, "none", <<>>, <<>>, "", 0)

Responses ==
    { Response(200, "completion", <<"Hello", "world">>, <<>>, "stop", 20),
      Response(200, "completion", <<>>, <<>>, "stop", 0),
      Response(200, "completion", <<" ">>, <<>>, "stop", 1),
      Response(200, "completion", <<"I", "Cannot", "help">>, <<>>, "stop", 12),
      Response(200, "completion", <<"Hello">>, <<>>, "MAX_TOKENS", 3),
      Response(200, "completion", <<"model", "is", "OVERLOADED">>, <<>>, "stop", 12),
      Response(200, "text", <<"gateway", "page">>, <<>>, "", 0),
      Response(200, "text", <<"model", "is", "overloaded">>, <<>>, "", 0),
      Response(503, "error", <<"service", "unavailable">>, <<>>, "", 0),
      Response(400, "error", <<"bad", "request">>, <<>>, "", 0),
      Response(404, "error", <<"not", "found">>, <<>>, "", 0),
      Response(500, "error", <<"internal", "error">>, <<>>, "", 0),
      Response(500, "error", <<"internal", "error">>,
               <<"googleAIBlockingResponseHandler", "cannot", "read">>, "", 0),
      Response(200, "error", <<"model", "is", "overloaded">>,
               <<"googleAIBlockingResponseHandler", "cannot", "read">>, "", 0),
      Response(423, "error", <<"resource", "locked">>, <<>>, "", 0) }

\* response.text: the strings of the body in document order
RawText(r) == r.content \o r.note

\* response.json() succeeds
IsJson(r) == r.fmt \in {"completion", "error"}

-----------------------------------------------------------------------------
(* The ProxyClient's configuration.                                        *)

\* a rule of hard_stop_conditions.rules; preserve_original_response is a key of the
\* rule's dict that no code reads
HardStopRule(p, add, msg, keep) ==
    [pattern |-> p, add_user_message |-> add, user_message |-> msg,
     preserve_original_response |-> keep]
RecatRule(p, from, to) == [pattern |-> p, original_status |-> from, new_status |-> to]

Config(on, hsOn, hsRules, parseOn, recatOn, extractOn, paths, recatRules, rpOn, rpRules) ==
    [present |-> on,
     hard_stop |-> [enabled |-> hsOn, rules |-> hsRules],
     parsing |-> [enabled |-> parseOn, recat_enabled |-> recatOn,
                  extraction_enabled |-> extractOn, paths |-> paths,
                  rules |-> recatRules],
     response_processing |-> [enabled |-> rpOn, rules |-> rpRules]]

OverloadedRule == RecatRule(<<"model", "is", "overloaded">>, 200, 429)
BlockingRule(add, msg, keep) ==
    HardStopRule(<<"googleaiblockingresponsehandler">>, add, msg, keep)
EarthRule == Rule(<<"world">>, TRUE, <<"earth">>, "literal", "", "all")
CanRule == Rule(<<"Cannot">>, TRUE, <<"can">>, "literal", "", "all")

\* ProxyClient(target_url) without a config; a config with every feature off; a
\* config with hard stops and recategorization; one that also rewrites responses.
Configs ==
    { Config(FALSE, FALSE, <<>>, FALSE, FALSE, FALSE, <<>>, <<>>, FALSE, <<>>),
      Config(TRUE, FALSE, <<BlockingRule(TRUE, <<"please", "rephrase">>, TRUE)>>,
             FALSE, FALSE, FALSE, <<>>, <<OverloadedRule>>, FALSE, <<EarthRule>>),
      Config(TRUE, TRUE, <<BlockingRule(TRUE, <<"please", "rephrase">>, TRUE)>>,
             TRUE, TRUE, TRUE, <<"error.message", "choices[0].message.content">>,
             <<OverloadedRule>>, FALSE, <<>>),
      Config(TRUE, TRUE, <<BlockingRule(FALSE, <<"please", "rephrase">>, FALSE)>>,
             TRUE, TRUE, TRUE, <<"error.message", "choices[0].message.content">>,
             <<RecatRule(<<"unavailable">>, 503, 500), OverloadedRule>>,
             TRUE, <<EarthRule, CanRule>>) }

-----------------------------------------------------------------------------
(* response_parser.py: ResponseParser.                                     *)

Some(v) == [some |-> TRUE, v |-> v]
None == [some |-> FALSE, v |-> <<>>]

\* _get_json_value(response_json, path) on the body shapes above
GetJsonValue(r, path) ==
    CASE path = "choices[0].message.content" /\ r.fmt = "completion" -> Some(r.content)
      [] path = "error.message" /\ r.fmt = "error" -> Some(r.content)
      [] path = "proxy_note" /\ r.fmt = "error" -> Some(r.note)
      [] OTHER -> None

\* _extract_error_messages: the non-empty strings found at the configured paths
RECURSIVE ExtractFrom(_, _)
ExtractFrom(r, paths) ==
    IF paths = <<>> THEN <<>>
    ELSE LET value == GetJsonValue(r, Head(paths))
         IN  (IF value.some /\ value.v # <<>> THEN <<value.v>> ELSE <<>>)
             \o ExtractFrom(r, Tail(paths))

ExtractErrorMessages(r, c) ==
    IF ~c.parsing.extraction_enabled THEN <<>> ELSE ExtractFrom(r, c.parsing.paths)

\* a variant of the rule test that searches case-sensitively; the recategorization
\* property is sensitive to it
ShouldApplyRuleCaseSensitive(rule, original_status, error_messages) ==
    /\ rule.original_status = original_status
    /\ rule.pattern # <<>>
    /\ \E i \in 1..Len(error_messages) : Contains(error_messages[i], rule.pattern)

\* _should_apply_rule(rule, original_status, error_messages)
ShouldApplyRule(rule, original_status, error_messages) ==
    IF rule.original_status # original_status THEN FALSE
    ELSE rule.pattern # <<>>
         /\ \E i \in 1..Len(error_messages) :
                SearchIgnoreCase(rule.pattern, error_messages[i])

Recat(st, hit) == [status |-> st, recategorized |-> hit]

\* the rule loop of _parse_json_response and _parse_text_response
RECURSIVE FirstApplicable(_, _, _)
FirstApplicable(rules, original_status, candidates) ==
    IF rules = <<>> THEN Recat(original_status, FALSE)
    ELSE IF ShouldApplyRule(Head(rules), original_status, candidates)
    THEN Recat(Head(rules).new_status, TRUE)
    ELSE FirstApplicable(Tail(rules), original_status, candidates)

\* parse_and_recategorize(response.text, response.status_code)
parse_and_recategorize(r, original_status, c) ==
    IF ~c.parsing.enabled THEN Recat(original_status, FALSE)
    ELSE IF ~c.parsing.recat_enabled THEN Recat(original_status, FALSE)
    ELSE IF IsJson(r)
    THEN FirstApplicable(c.parsing.rules, original_status, ExtractErrorMessages(r, c))
    ELSE FirstApplicable(c.parsing.rules, original_status, <<RawText(r)>>)

-----------------------------------------------------------------------------
(* response_parser.py on arbitrary bodies.  A JSON document is a sequence   *)
(* of nodes, node 1 being the root; an object lists its keys and, in the    *)
(* same order, the nodes of their values; an array lists the nodes of its   *)
(* elements.                                                                *)

Node(kind, text, names, kids) == [kind |-> kind, text |-> text, names |-> names, kids |-> kids]
JObject(names, kids) == Node("object", <<>>, names, kids)
JArray(kids) == Node("array", <<>>, <<>>, kids)
JString(text) == Node("string", text, <<>>, <<>>)
JNumber == Node("number", <<>>, <<>>, <<>>)

\* a response body: json.loads succeeds and gives nodes, or fails and the raw text
\* is text
Body(json, nodes, text) == [json |-> json, nodes |-> nodes, text |-> text]
JsonBody(nodes) == Body(TRUE, nodes, <<>>)
TextBody(text) == Body(FALSE, <<>>, text)
NoBody == Body(FALSE, <<>>, <<>>)

\* one match of `(\w+)(?:\[(\d+)\])?` in a path: a key and an index, -1 when the
\* path gives none
Part(key, index) == [key |-> key, index |-> index]

\* self.parsing_config
Parsing(on, recatOn, extractOn, paths, rules) ==
    [enabled |-> on, recat_enabled |-> recatOn, extraction_enabled |-> extractOn,
     paths |-> paths, rules |-> rules]
NoParsing == Parsing(FALSE, FALSE, FALSE, <<>>, <<>>)

\* the Python value None
NoValue == Node("none", <<>>, <<>>, <<>>)

\* `key in current` and `current[key]` for an object node
HasKey(node, key) == \E i \in 1..Len(node.names) : node.names[i] = key
ValueOfKey(node, key) ==
    node.kids[CHOOSE i \in 1..Len(node.names) : node.names[i] = key]

\* `0 <= idx < len(current)`
IndexInRange(index, node) == 0 <= index /\ index < Len(node.kids)

\* the loop of _get_json_value from node current over the remaining parts
RECURSIVE GetJsonValueFrom(_, _, _)
GetJsonValueFrom(nodes, current, parts) ==
    IF parts = <<>> THEN nodes[current]
    ELSE LET part == Head(parts) IN
         IF nodes[current].kind # "object" THEN NoValue
         ELSE IF ~HasKey(nodes[current], part.key) THEN NoValue
         ELSE LET value == ValueOfKey(nodes[current], part.key) IN
              IF part.index = -1 THEN GetJsonValueFrom(nodes, value, Tail(parts))
              ELSE IF nodes[value].kind # "array" THEN NoValue
              ELSE IF ~IndexInRange(part.index, nodes[value]) THEN NoValue
              ELSE GetJsonValueFrom(nodes, nodes[value].kids[part.index + 1], Tail(parts))

\* _get_json_value(obj, path): the value the path leads to, or None
get_json_value(nodes, path) == GetJsonValueFrom(nodes, 1, path)

\* a variant of the test that takes every value found; the extraction property is
\* sensitive to it
IsMessageAnyValue(value) == value # NoValue

\* `if value and isinstance(value, str)`
IsMessage(value) == value # NoValue /\ value.kind = "string" /\ value.text # <<>>

\* the loop of _extract_error_messages over the configured paths
RECURSIVE ExtractMessagesFrom(_, _)
ExtractMessagesFrom(nodes, paths) ==
    IF paths = <<>> THEN <<>>
    ELSE LET value == get_json_value(nodes, Head(paths))
         IN  (IF IsMessage(value) THEN <<value.text>> ELSE <<>>)
             \o ExtractMessagesFrom(nodes, Tail(paths))

\* _extract_error_messages(response_json)
extract_error_messages(nodes, parsing) ==
    IF ~parsing.extraction_enabled THEN <<>>
    ELSE ExtractMessagesFrom(nodes, parsing.paths)

\* a variant of the rule loop that lets a later rule override an earlier one; the
\* first-rule property is sensitive to it
RECURSIVE LastApplicable(_, _, _)
LastApplicable(rules, original_status, candidates) ==
    IF rules = <<>> THEN Recat(original_status, FALSE)
    ELSE LET later == LastApplicable(Tail(rules), original_status, candidates)
         IN  IF later.recategorized THEN later
             ELSE IF ShouldApplyRule(Head(rules), original_status, candidates)
             THEN Recat(Head(rules).new_status, TRUE)
             ELSE later

\* the rule loop of _parse_json_response and _parse_text_response
RuleLoop(rules, original_status, candidates) ==
    FirstApplicable(rules, original_status, candidates)

\* what parse_and_recategorize returns: the status, parsing_info["recategorized"]
\* and, from _parse_json_response, parsing_info["error_messages"]
Parsed(st, hit, messages) == [status |-> st, recategorized |-> hit, messages |-> messages]
NoParsed == Parsed(0, FALSE, <<>>)

\* _parse_json_response(response_json, original_status)
ParseJsonResponse(nodes, original_status, parsing) ==
    IF ~parsing.recat_enabled THEN Parsed(original_status, FALSE, <<>>)
    ELSE LET error_messages == extract_error_messages(nodes, parsing)
             found == RuleLoop(parsing.rules, original_status, error_messages)
         IN  Parsed(found.status, found.recategorized, error_messages)

\* _parse_text_response(response_text, original_status)
ParseTextResponse(text, original_status, parsing) ==
    IF ~parsing.recat_enabled THEN Parsed(original_status, FALSE, <<>>)
    ELSE LET found == RuleLoop(parsing.rules, original_status, <<text>>)
         IN  Parsed(found.status, found.recategorized, <<>>)

\* parse_and_recategorize(response_text, original_status) on any body
ParseAndRecategorize(body, original_status, parsing) ==
    IF ~parsing.enabled THEN Parsed(original_status, FALSE, <<>>)
    ELSE IF body.json THEN ParseJsonResponse(body.nodes, original_status, parsing)
    ELSE ParseTextResponse(body.text, original_status, parsing)

-----------------------------------------------------------------------------
(* proxy_client.py: ProxyClient.                                           *)

BLANK_RESPONSE_PATTERNS ==
    { <<"I'm", "sorry,", "I", "can't">>, <<"I", "cannot">>, <<"I'm", "unable", "to">>,
      <<"Content", "policy">>, <<"Safety", "filter">>, <<"Inappropriate", "content">> }

\* _is_blank_response(response_json)
IsBlankResponse(body) ==
    IF body.fmt = "completion"
    THEN \/ body.content = <<>>
         \/ IsWhitespaceOnly(body.content)
         \/ \E p \in BLANK_RESPONSE_PATTERNS :
                Contains(LowerText(body.content), LowerText(p))
         \/ (body.finish = "MAX_TOKENS" /\ body.tokens < 10)
    ELSE FALSE

GenericHardStopMessage == <<"Request", "failed", "due", "to", "downstream", "provider", "error">>

Payload(msg, ty, co, hasOrig, orig, hasNote, note) ==
    [message |-> msg, type |-> ty, code |-> co, has_original |-> hasOrig,
     original_error |-> orig, has_note |-> hasNote, proxy_note |-> note]
NoPayload == Payload(<<>>, "", "", FALSE, <<>>, FALSE, <<>>)

\* _format_hard_stop_response(response, hard_stop_rule)
FormatHardStopResponse(r, rule) ==
    LET user_message == IF rule.add_user_message THEN rule.user_message ELSE <<>>
        message == IF user_message # <<>> THEN user_message ELSE GenericHardStopMessage
    IN  IF IsJson(r)
        THEN Payload(message, "hard_stop_error", "hard_stop_condition_met",
                     r.fmt = "error", IF r.fmt = "error" THEN r.content ELSE <<>>,
                     r.fmt = "error" /\ r.note # <<>>,
                     IF r.fmt = "error" THEN r.note ELSE <<>>)
        ELSE Payload(message, "hard_stop_error", "hard_stop_condition_met",
                     TRUE, RawText(r), FALSE, <<>>)

\* How one pass through forward_request ends: it returns a value (a JSON body, the
\* raw response of a streamed request, a hard-stop payload), raises, or re-issues
\* the exchange by calling itself.
Outcome(k, t, b, pl, e) == [kind |-> k, vt |-> t, body |-> b, payload |-> pl, exc |-> e]
NoOutcome == Outcome("none", "none", NoResponse, NoPayload, NoExc)
ReturnJson(b) == Outcome("return", "json", b, NoPayload, NoExc)
ReturnRaw(r) == Outcome("return", "raw", r, NoPayload, NoExc)
ReturnHardStop(r, pl) == Outcome("return", "hard_stop", r, pl, NoExc)
Raise(e) == Outcome("raise", "none", NoResponse, NoPayload, e)
Reissue == Outcome("reissue", "none", NoResponse, NoPayload, NoExc)

\* a variant that raises for the server errors only; the rule that no body is
\* returned for a failed exchange is sensitive to it
RaisesForServerError(st) == 500 <= st /\ st < 600

\* response.raise_for_status() raises for a status in 400..599
RaisesForStatus(st) == 400 <= st /\ st < 600

\* the loop over the hard-stop rules: the first rule whose pattern is found
RECURSIVE FirstHardStop(_, _)
FirstHardStop(rules, r) ==
    IF rules = <<>> THEN None
    ELSE IF Head(rules).pattern # <<>> /\ SearchIgnoreCase(Head(rules).pattern, RawText(r))
    THEN [some |-> TRUE, v |-> Head(rules)]
    ELSE FirstHardStop(Tail(rules), r)

\* a variant that never finds a hard stop; the hard-stop property is sensitive to it
HardStopMatchNever(r, c) == None

HardStopMatch(r, c) ==
    IF c.present /\ c.hard_stop.enabled THEN FirstHardStop(c.hard_stop.rules, r) ELSE None

\* process_response_with_regex(response_json, rules): every rule on the content of
\* each choice's message
process_response_with_regex(body, rules) ==
    IF rules = <<>> THEN [kind |-> "return", body |-> body, exc |-> "none"]
    ELSE IF body.fmt = "completion"
    THEN LET out == apply_regex_replacements(body.content, rules)
         IN  IF out.kind = "raise"
             THEN [kind |-> "raise", body |-> body, exc |-> out.exc]
             ELSE [kind |-> "return", body |-> [body EXCEPT !.content = out.text],
                   exc |-> "none"]
    ELSE [kind |-> "return", body |-> body, exc |-> "none"]

\* the response rewriting step of forward_request
RewriteResponse(body, c) ==
    IF c.present /\ c.response_processing.enabled /\ c.response_processing.rules # <<>>
    THEN process_response_with_regex(body, c.response_processing.rules)
    ELSE [kind |-> "return", body |-> body, exc |-> "none"]

\* a variant of the guard's budget that allows a single re-issue; the blank-guard
\* property is sensitive to it
BlankRetryAllowedOnce(rc) == rc = -1

\* a variant of the guard's budget that allows a fourth re-issue; the bound on
\* the exchanges of one request is sensitive to it
BlankRetryAllowedFourTimes(rc) == rc = -1 \/ rc < 4

\* the blank-completion guard: retry_count is None (-1) or below 3
BlankRetryAllowed(rc) == rc = -1 \/ rc < 3
NextRetryCount(rc) == (IF rc = -1 THEN 0 ELSE rc) + 1

\* a variant that leaves the status of the response as it came; the
\* recategorization order property is sensitive to it
KeepStatus(recat, original_status) == original_status

\* `response.status_code = new_status` when the parser recategorized
RecategorizedStatus(recat, original_status) ==
    IF recat.recategorized THEN recat.status ELSE original_status

\* forward_request for a response with status 200 whose body parses as JSON
ForwardJson200(r, rc, c) ==
    LET recat == IF c.present THEN parse_and_recategorize(r, r.status, c)
                 ELSE Recat(r.status, FALSE)
        st == RecategorizedStatus(recat, r.status)
        rewritten == RewriteResponse([r EXCEPT !.status = st], c)
    IN  IF recat.recategorized /\ st >= 400 /\ RaisesForStatus(st)
        THEN Raise(Exc("HTTPError", st))
        ELSE IF rewritten.kind = "raise" THEN Raise(Exc(rewritten.exc, 0))
        ELSE IF IsBlankResponse(rewritten.body) /\ BlankRetryAllowed(rc) THEN Reissue
        ELSE ReturnJson(rewritten.body)

\* forward_request for a response with status 200 whose body is not JSON
ForwardText200(r, c) ==
    LET recat == IF c.present THEN parse_and_recategorize(r, r.status, c)
                 ELSE Recat(r.status, FALSE)
        st == RecategorizedStatus(recat, r.status)
    IN  IF recat.recategorized /\ st >= 400 /\ RaisesForStatus(st)
        THEN Raise(Exc("HTTPError", st))
        ELSE Raise(Exc("JSONDecodeError", 0))

\* forward_request for a response whose status is not 200
ForwardNon200(r, c) ==
    LET hs == HardStopMatch(r, c)
        recat == IF c.present THEN parse_and_recategorize(r, r.status, c)
                 ELSE Recat(r.status, FALSE)
        st == RecategorizedStatus(recat, r.status)
    IN  IF hs.some THEN ReturnHardStop(r, FormatHardStopResponse(r, hs.v))
        ELSE IF RaisesForStatus(st) THEN Raise(Exc("HTTPError", st))
        ELSE IF IsJson(r) THEN ReturnJson([r EXCEPT !.status = st])
        ELSE Raise(Exc("JSONDecodeError", 0))

\* a variant that treats a streamed request as any other; the streaming property
\* is sensitive to it
ForwardIgnoringStream(r, rc, c, streaming) ==
    IF r.status = 200
    THEN (IF IsJson(r) THEN ForwardJson200(r, rc, c) ELSE ForwardText200(r, c))
    ELSE ForwardNon200(r, c)

\* forward_request(request_data, retry_count=rc) once the upstream has answered r
forward_request(r, rc, c, streaming) ==
    IF streaming THEN ReturnRaw(r)
    ELSE IF r.status = 200
    THEN (IF IsJson(r) THEN ForwardJson200(r, rc, c) ELSE ForwardText200(r, c))
    ELSE ForwardNon200(r, c)

-----------------------------------------------------------------------------
(* The retry coordinator's decisions.                                      *)

Ev(e, n) == [ev |-> e, n |-> n]

\* `if self.error_logger:` around every call of the error logger
Logged(events) == IF hasLogger THEN events ELSE <<>>

\* a variant of the budget check that gives up one attempt early; the retry-budget
\* property is sensitive to it
BudgetExhaustedEarly(n) == n >= max_retries

\* `if attempt > self.max_retries`
BudgetExhausted(n) == n > max_retries

\* a variant of the loop bound that never ends the loop; the termination property
\* is sensitive to it
LoopContinuesAlways(n) == TRUE

\* `for attempt in range(1, self.max_retries + 2)`: n is still in the range
LoopContinues(n) == n < max_retries + 2

\* `if attempt > self.conditional_retry_max_attempts`
ConditionalBudgetExhausted(n) == n > conditional_retry_max_attempts

\* a variant that raises a failure of its own in place of the caught one; the
\* propagation property is sensitive to it
RaiseGeneric(o) == Raise(Exc("Exception", 0))

\* `raise e`, `raise last_exception`: the caught exception object is raised again
Reraise(o) == o

Decision(a, evs, half) == [act |-> a, logs |-> evs, half |-> half]

\* a variant of the except clause that retries without recording the retry; the
\* retry-log property is sensitive to it
BackoffDecisionUnlogged(e, n) ==
    IF ~should_retry_exception(e) \/ n > max_retries
    THEN Decision("raise", Logged(<<Ev("log_error", n), Ev("log_final", n)>>), FALSE)
    ELSE Decision("retry", Logged(<<Ev("log_error", n)>>), FALSE)

\* the except clause of retry_with_backoff for exception e on attempt n
BackoffDecision(e, n) ==
    IF ~should_retry_exception(e)
    THEN Decision("raise", Logged(<<Ev("log_error", n), Ev("log_final", n)>>), FALSE)
    ELSE IF BudgetExhausted(n)
    THEN Decision("raise", Logged(<<Ev("log_error", n), Ev("log_final", n)>>), FALSE)
    ELSE Decision("retry", Logged(<<Ev("log_error", n), Ev("log_retry", n)>>), FALSE)

\* a variant of the `except HTTPError` clause that tests the conditional table
\* before the other two; the order-of-tests property is sensitive to it
ConditionalHttpDecisionConditionalFirst(e, n) ==
    LET failed == Decision("raise", Logged(<<Ev("log_error", n), Ev("log_final", n)>>), FALSE)
        again(half) == Decision("retry", Logged(<<Ev("log_error", n), Ev("log_retry", n)>>), half)
    IN  IF e.status = 0 THEN Decision("raise", <<>>, FALSE)
        ELSE IF should_retry_conditionally(e.status)
        THEN (IF ContextRetry(e.status, endpoint, n)
              THEN (IF ConditionalBudgetExhausted(n) THEN failed ELSE again(TRUE))
              ELSE failed)
        ELSE IF is_permanent_failure(e.status) THEN failed
        ELSE IF should_retry(e.status)
        THEN (IF BudgetExhausted(n) THEN failed ELSE again(FALSE))
        ELSE failed

\* the `except HTTPError` clause of retry_with_conditional_logic
ConditionalHttpDecision(e, n) ==
    LET failed == Decision("raise", Logged(<<Ev("log_error", n), Ev("log_final", n)>>), FALSE)
        again(half) == Decision("retry", Logged(<<Ev("log_error", n), Ev("log_retry", n)>>), half)
    IN  IF e.status = 0 THEN Decision("raise", <<>>, FALSE)
        ELSE IF is_permanent_failure(e.status) THEN failed
        ELSE IF should_retry(e.status)
        THEN (IF BudgetExhausted(n) THEN failed ELSE again(FALSE))
        ELSE IF should_retry_conditionally(e.status)
        THEN (IF ContextRetry(e.status, endpoint, n)
              THEN (IF ConditionalBudgetExhausted(n) THEN failed ELSE again(TRUE))
              ELSE failed)
        ELSE failed

\* the `except Exception` clause of retry_with_conditional_logic
ConditionalOtherDecision(e, n) ==
    IF ~should_retry_exception(e) THEN Decision("raise", <<>>, FALSE)
    ELSE IF BudgetExhausted(n) THEN Decision("raise", <<>>, FALSE)
    ELSE Decision("retry", <<>>, FALSE)

ConditionalDecision(e, n) ==
    IF IsInstance(e, {"HTTPError"}) THEN ConditionalHttpDecision(e, n)
    ELSE ConditionalOtherDecision(e, n)

\* the jitter draws the retry sequence takes: the extremes and the middle
JitterDraws == {-JitterSteps, 0, JitterSteps}

\* the delay handed to time.sleep, in units of 1 / (2 * DelayUnit); half is the
\* conditional_retry_delay_multiplier of 0.5
SleepDelay(n, u, half) ==
    LET d == calculate_retry_delay(n, base_delay, max_delay, u)
    IN  IF half THEN d ELSE 2 * d

-----------------------------------------------------------------------------
(* What the claims speak of, stated apart from the code.                   *)

\* a failure of a retryable class: an HTTP status of retry_codes, a timeout, a
\* connection failure
RetryableFailure(e) ==
    \/ (e.exc = "HTTPError" /\ e.status \in {429, 502, 503, 504})
    \/ e.exc \in {"Timeout", "ConnectionError"}

\* a failure of a permanent class: an HTTP status of fail_codes
PermanentFailure(e) == e.exc = "HTTPError" /\ e.status \in {400, 401, 403}

\* a failure of no known class: an HTTP status in none of the three tables, or an
\* exception of an unrecognized kind
UnknownFailure(e) ==
    \/ (e.exc = "HTTPError" /\ e.status = 500)
    \/ e.exc = "KeyError"

\* the body of an error response matches an enabled hard-stop rule
HardStopResponse(r, c) ==
    /\ r.status # 200
    /\ c.present /\ c.hard_stop.enabled
    /\ \E i \in 1..Len(c.hard_stop.rules) :
           Contains(LowerText(RawText(r)), LowerText(c.hard_stop.rules[i].pattern))

\* a blank chat completion: empty or whitespace-only content, a refusal phrase, or
\* a completion cut at MAX_TOKENS after fewer than 10 tokens
BlankCompletion(b) ==
    /\ b.fmt = "completion"
    /\ \/ Len(b.content) = 0
       \/ \A i \in 1..Len(b.content) : b.content[i] = " "
       \/ \E i \in 1..(Len(b.content) - 1) :
              Lower(b.content[i]) = "i" /\ Lower(b.content[i + 1]) = "cannot"
       \/ (b.finish = "MAX_TOKENS" /\ b.tokens < 10)

\* the exchange comes to the blank guard of forward_request with a blank body
GuardSeesBlank(r, c, streaming) ==
    /\ ~streaming /\ r.status = 200 /\ IsJson(r)
    /\ LET o == ForwardJson200(r, 3, c)
       IN  o.kind = "return" /\ BlankCompletion(o.body)

-----------------------------------------------------------------------------
(* One retry sequence: main.forward_request hands ProxyClient.forward_request *)
(* to the coordinator.                                                      *)

Modes == {"backoff", "conditional"}
Endpoints == {"models", "chat/completions", ""}

\* what requests.request or the attempt operation raises without any response
FailureKinds == {"Timeout", "ConnectionError", "ProxyError", "MissingSchema",
                 "ValueError", "KeyError", "HTTPError"}

\* the answer of an endpoint of main.py: its HTTP status and what its body is
Reply(status, body) == [status |-> status, body |-> body]
NoReply == Reply(0, "none")

IdleRetry ==
    /\ mode = "idle" /\ max_retries = 0 /\ hasLogger = FALSE /\ loggerRaises = FALSE
    /\ reply = NoReply
    /\ endpoint = ""
    /\ stream = FALSE /\ cfg = Config(FALSE, FALSE, <<>>, FALSE, FALSE, FALSE, <<>>, <<>>, FALSE, <<>>)
    /\ attempt = 0 /\ pc = "idle" /\ retry_count = -1 /\ resp = NoResponse
    /\ funcOutcome = NoOutcome /\ result = NoOutcome /\ trace = <<>> /\ delay = 0
    /\ exchanges = 0 /\ callExchanges = 0 /\ blankSeen = 0 /\ onlyRetryable = TRUE
    /\ hardStopAt = 0

IdleFiles ==
    /\ callers = {} /\ max_files = 1 /\ folder = {} /\ clock = 0
    /\ lpc = <<>> /\ listing = <<>> /\ log_files = <<>> /\ idx = <<>>
    /\ calls = 0 /\ finished = 0 /\ raced = {}

IdleDelay == dBase = 0 /\ dMax = 0 /\ dAttempt = 0 /\ dJitter = 0 /\ dResult = 0

IdleRegex ==
    /\ rText = <<>> /\ rMessages = <<>> /\ rRules = <<>> /\ rpc = "idle"
    /\ rResponse = NoResponseData /\ rResponseOut = NoResponseOut
    /\ rOut = [op |-> "none", kind |-> "none", text |-> <<>>, msgs |-> <<>>, exc |-> "none"]

IdleParser ==
    /\ pBody = NoBody /\ pStatus = 0 /\ pParsing = NoParsing /\ ppc = "idle"
    /\ pOut = NoParsed

IdleRequests == requests = <<>> /\ actor = 0

IdleBlank == bBody = <<>> /\ bOut = FALSE /\ bpc = "idle"

IdleLogCall == eLogger = <<>> /\ eCall = <<>> /\ eOut = <<>> /\ epc = "idle"

\* ErrorHandler(max_retries) and ProxyClient(target_url, config) are built, the
\* coordinator is at the top of its loop with attempt = 1
InitSequence ==
    /\ mode \in Modes
    /\ max_retries \in 0..MaxRetriesBound
    /\ hasLogger \in BOOLEAN
    /\ endpoint \in (IF mode = "conditional" THEN Endpoints ELSE {""})
    /\ stream \in BOOLEAN
    /\ cfg \in Configs
    /\ attempt = 1 /\ pc = "call" /\ retry_count = -1 /\ resp = NoResponse
    /\ funcOutcome = NoOutcome /\ result = NoOutcome /\ trace = <<>> /\ delay = 0
    /\ exchanges = 0 /\ callExchanges = 0 /\ blankSeen = 0 /\ onlyRetryable = TRUE
    /\ hardStopAt = 0 /\ reply = NoReply
    /\ IdleDelay /\ IdleRegex /\ IdleFiles /\ IdleParser /\ IdleRequests /\ IdleBlank /\ IdleLogCall

\* the sequences in which every call of the error logger returns
Init == InitSequence /\ loggerRaises = FALSE

\* `result = func(*args, **kwargs)`: the coordinator calls the attempt operation
CallAttempt ==
    /\ pc = "call"
    /\ pc' = "exchange"
    /\ trace' = Append(trace, Ev("call", attempt))
    /\ retry_count' = -1
    /\ callExchanges' = 0
    /\ blankSeen' = 0
    /\ UNCHANGED <<mode, max_retries, hasLogger, loggerRaises, reply,
                   endpoint, stream, cfg, attempt, resp,
                   funcOutcome, result, delay, exchanges, onlyRetryable, hardStopAt>>
    /\ UNCHANGED <<delayVars, regexVars, fileVars, parserVars, requestVars, blankVars, logCallVars>>

\* requests.request returns r and forward_request runs to its return, raise, or
\* recursive call
UpstreamResponds ==
    /\ pc = "exchange"
    /\ \E r \in Responses :
        LET o == forward_request(r, retry_count, cfg, stream)
        IN  /\ resp' = r
            /\ exchanges' = exchanges + 1
            /\ callExchanges' = callExchanges + 1
            /\ blankSeen' = blankSeen + (IF GuardSeesBlank(r, cfg, stream) THEN 1 ELSE 0)
            /\ hardStopAt' = IF hardStopAt = 0 /\ HardStopResponse(r, cfg)
                             THEN exchanges + 1 ELSE hardStopAt
            /\ IF o.kind = "reissue"
               THEN /\ retry_count' = NextRetryCount(retry_count)
                    /\ pc' = "exchange"
                    /\ UNCHANGED funcOutcome
               ELSE /\ funcOutcome' = o
                    /\ pc' = "returned"
                    /\ UNCHANGED retry_count
    /\ UNCHANGED <<mode, max_retries, hasLogger, loggerRaises, reply,
                   endpoint, stream, cfg, attempt, result,
                   trace, delay, onlyRetryable>>
    /\ UNCHANGED <<delayVars, regexVars, fileVars, parserVars, requestVars, blankVars, logCallVars>>

\* requests.request raises instead of returning a response
AttemptRaises ==
    /\ pc = "exchange"
    /\ \E k \in FailureKinds :
        /\ funcOutcome' = Raise(Exc(k, 0))
        /\ resp' = NoResponse
        /\ exchanges' = exchanges + 1
        /\ callExchanges' = callExchanges + 1
        /\ pc' = "returned"
    /\ UNCHANGED <<mode, max_retries, hasLogger, loggerRaises, reply,
                   endpoint, stream, cfg, attempt,
                   retry_count, result, trace, delay, blankSeen, onlyRetryable,
                   hardStopAt>>
    /\ UNCHANGED <<delayVars, regexVars, fileVars, parserVars, requestVars, blankVars, logCallVars>>

\* `return result`: the attempt operation returned a value
ReturnResult ==
    /\ pc = "returned"
    /\ funcOutcome.kind = "return"
    /\ result' = funcOutcome
    /\ pc' = "done"
    /\ UNCHANGED <<mode, max_retries, hasLogger, loggerRaises, reply,
                   endpoint, stream, cfg, attempt,
                   retry_count, resp, funcOutcome, trace, delay, exchanges,
                   callExchanges, blankSeen, onlyRetryable, hardStopAt>>
    /\ UNCHANGED <<delayVars, regexVars, fileVars, parserVars, requestVars, blankVars, logCallVars>>

\* the i-th call of the error logger in the except clause raises: the calls are not
\* inside a try of their own, so the exception leaves the coordinator
LoggerCallRaises(d) ==
    /\ loggerRaises
    /\ \E i \in 1..Len(d.logs) :
           trace' = trace \o SubSeq(d.logs, 1, i - 1) \o <<Ev("log_raise", attempt)>>
    /\ result' = Raise(Exc("LoggerError", 0))
    /\ pc' = "done"
    /\ UNCHANGED delay

\* the except clauses of the coordinator, given its decision d
HandleFailure(d) ==
    /\ onlyRetryable' = (onlyRetryable /\ RetryableFailure(funcOutcome.exc))
    /\ \/ /\ trace' = trace \o d.logs
          /\ IF d.act = "raise"
             THEN /\ result' = Reraise(funcOutcome)
                  /\ pc' = "done"
                  /\ UNCHANGED delay
             ELSE /\ \E u \in JitterDraws : delay' = SleepDelay(attempt, u, d.half)
                  /\ pc' = "sleep"
                  /\ UNCHANGED result
       \/ LoggerCallRaises(d)
    /\ UNCHANGED <<mode, max_retries, hasLogger, loggerRaises, reply,
                   endpoint, stream, cfg, attempt,
                   retry_count, resp, funcOutcome, exchanges, callExchanges, blankSeen,
                   hardStopAt>>
    /\ UNCHANGED <<delayVars, regexVars, fileVars, parserVars, requestVars, blankVars, logCallVars>>

\* retry_with_backoff: `except Exception as e`
HandleFailureBackoff ==
    /\ pc = "returned"
    /\ mode = "backoff"
    /\ funcOutcome.kind = "raise"
    /\ HandleFailure(BackoffDecision(funcOutcome.exc, attempt))

\* retry_with_conditional_logic: `except HTTPError as e` and `except Exception as e`
HandleFailureConditional ==
    /\ pc = "returned"
    /\ mode = "conditional"
    /\ funcOutcome.kind = "raise"
    /\ HandleFailure(ConditionalDecision(funcOutcome.exc, attempt))

\* `time.sleep(delay)`, then the next iteration of `for attempt in range(1,
\* max_retries + 2)`, or the `raise last_exception` after the loop
Sleep ==
    /\ pc = "sleep"
    /\ trace' = Append(trace, Ev("sleep", attempt))
    /\ delay' = 0
    /\ attempt' = attempt + 1
    /\ IF LoopContinues(attempt + 1)
       THEN pc' = "call" /\ UNCHANGED result
       ELSE pc' = "done" /\ result' = Reraise(funcOutcome)
    /\ UNCHANGED <<mode, max_retries, hasLogger, loggerRaises, reply,
                   endpoint, stream, cfg, retry_count,
                   resp, funcOutcome, exchanges, callExchanges, blankSeen,
                   onlyRetryable, hardStopAt>>
    /\ UNCHANGED <<delayVars, regexVars, fileVars, parserVars, requestVars, blankVars, logCallVars>>

Next ==
    \/ CallAttempt
    \/ UpstreamResponds
    \/ AttemptRaises
    \/ ReturnResult
    \/ HandleFailureBackoff
    \/ HandleFailureConditional
    \/ Sleep

Spec == Init /\ [][Next]_vars

\* a variant of the except clause of models() that answers with the error; the
\* fallback property is sensitive to it
ModelsSurfacesError(o) == Reply(500, "error")

\* the except clause of models(): the fallback list with the default status
ModelsFallback(o) == Reply(200, "default_models")

\* main.models once its retry sequence is over: jsonify(response_data), or the
\* except clause, which records the failure with the error logger and answers
\* with DEFAULT_MODELS
ModelsResponds ==
    /\ pc = "done"
    /\ pc' = "responded"
    /\ IF result.kind = "return"
       THEN /\ reply' = Reply(200, "upstream")
            /\ UNCHANGED trace
       ELSE /\ reply' = ModelsFallback(result)
            /\ trace' = trace \o Logged(<<Ev("log_error", 0)>>)
    /\ UNCHANGED <<mode, max_retries, hasLogger, loggerRaises, endpoint, stream, cfg,
                   attempt, retry_count, resp, funcOutcome, result, delay, exchanges,
                   callExchanges, blankSeen, onlyRetryable, hardStopAt>>
    /\ UNCHANGED <<delayVars, regexVars, fileVars, parserVars, requestVars, blankVars, logCallVars>>

\* models() builds ProxyClient(models_url) without a configuration and hands a
\* request that is not streamed to retry_with_backoff, with no endpoint in the
\* context
InitModels == Init /\ mode = "backoff" /\ ~cfg.present /\ ~stream /\ endpoint = ""

\* the steps of retry_with_backoff, then the endpoint's answer
NextModels ==
    \/ CallAttempt
    \/ UpstreamResponds
    \/ AttemptRaises
    \/ ReturnResult
    \/ HandleFailureBackoff
    \/ Sleep
    \/ ModelsResponds

SpecModels == InitModels /\ [][NextModels]_vars

-----------------------------------------------------------------------------
(* calculate_retry_delay on its own: a handler with any base_delay and      *)
(* max_delay, asked for the delay of any attempt under any jitter draw.     *)

InitDelay ==
    /\ dBase \in 0..MaxBaseDelay
    /\ dMax \in 0..MaxMaxDelay
    /\ dAttempt = 0 /\ dJitter = 0 /\ dResult = 0
    /\ IdleRetry /\ IdleRegex /\ IdleFiles /\ IdleParser /\ IdleRequests /\ IdleBlank /\ IdleLogCall

\* delay = self.calculate_retry_delay(n), random.uniform(-1, 1) drawing u / JitterSteps
ComputeDelay ==
    /\ \E n \in 1..MaxDelayAttempt, u \in (-JitterSteps)..JitterSteps :
        /\ dAttempt' = n
        /\ dJitter' = u
        /\ dResult' = calculate_retry_delay(n, dBase, dMax, u)
    /\ UNCHANGED <<dBase, dMax>>
    /\ UNCHANGED <<retryVars, regexVars, fileVars, parserVars, requestVars, blankVars, logCallVars>>

NextDelay == ComputeDelay

SpecDelay == InitDelay /\ [][NextDelay]_vars

-----------------------------------------------------------------------------
(* The regex helpers on their own: any text or message list of the sets     *)
(* below under any rule list.                                               *)

Texts == {<<"Hello", "world">>, <<"hi", "hi">>, <<>>}
Roles == {"user", "User", "assistant"}
\* a message carries a role, a content and further fields, of which name stands
NamedMessage(role, content, name) == [role |-> role, content |-> content, name |-> name]
Message(role, content) == NamedMessage(role, content, "")
Messages ==
    {Message(role, content) : role \in Roles, content \in Texts}
        \cup {NamedMessage("user", <<"Hello", "world">>, "test_user")}

RuleSet ==
    { Rule(<<"hello">>, TRUE, <<"hi">>, "literal", "i", "user"),
      Rule(<<"hi">>, TRUE, <<"yo">>, "literal", "", "ALL"),
      Rule(<<"world">>, TRUE, <<"earth">>, "literal", "", "Assistant"),
      Rule(<<"[invalid">>, FALSE, <<"x">>, "literal", "", "all"),
      Rule(<<"hi">>, TRUE, <<>>, "bad_group_number", "", "all"),
      Rule(<<"world">>, TRUE, <<>>, "unknown_group_name", "", "all") }

SeqsUpTo(S, n) == UNION {[1..k -> S] : k \in 0..n}

Choices ==
    {Choice("stop", TRUE, Message("assistant", content)) : content \in Texts}
        \cup {Choice("length", TRUE, NamedMessage("assistant", <<"Hello", "world">>, "bot")),
              Choice("stop", FALSE, Message("", <<>>))}
ResponseDatas ==
    {ResponseData("test-123", TRUE, choices) : choices \in SeqsUpTo(Choices, MaxChoices)}
        \cup {ResponseData("error-1", FALSE, <<>>)}

InitRegex ==
    /\ rpc \in {"text", "messages", "response"}
    /\ rResponse \in (IF rpc = "response" THEN ResponseDatas ELSE {NoResponseData})
    /\ rResponseOut = NoResponseOut
    /\ rText \in (IF rpc = "text" THEN Texts ELSE {<<>>})
    /\ rMessages \in (IF rpc = "messages" THEN SeqsUpTo(Messages, MaxMessages) ELSE {<<>>})
    /\ rRules \in SeqsUpTo(RuleSet, MaxRules)
    /\ rOut = [op |-> "none", kind |-> "none", text |-> <<>>, msgs |-> <<>>, exc |-> "none"]
    /\ IdleRetry /\ IdleDelay /\ IdleFiles /\ IdleParser /\ IdleRequests /\ IdleBlank /\ IdleLogCall

\* apply_regex_replacements(rText, rRules)
ApplyText ==
    /\ rpc = "text"
    /\ LET out == apply_regex_replacements(rText, rRules)
       IN  rOut' = [op |-> "apply", kind |-> out.kind, text |-> out.text,
                    msgs |-> <<>>, exc |-> out.exc]
    /\ rpc' = "applied"
    /\ UNCHANGED <<rText, rMessages, rRules, rResponse, rResponseOut>>
    /\ UNCHANGED <<retryVars, delayVars, fileVars, parserVars, requestVars, blankVars, logCallVars>>

\* process_messages_with_regex(rMessages, rRules)
ProcessMessages ==
    /\ rpc = "messages"
    /\ LET out == process_messages_with_regex(rMessages, rRules)
       IN  rOut' = [op |-> "process", kind |-> out.kind, text |-> <<>>,
                    msgs |-> out.msgs, exc |-> out.exc]
    /\ rpc' = "processed"
    /\ rMessages' = MessagesAfter(rMessages, rRules)
    /\ UNCHANGED <<rText, rRules, rResponse, rResponseOut>>
    /\ UNCHANGED <<retryVars, delayVars, fileVars, parserVars, requestVars, blankVars, logCallVars>>

\* process_response_with_regex(rResponse, rRules)
ProcessResponse ==
    /\ rpc = "response"
    /\ rResponseOut' = ProcessResponseData(rResponse, rRules)
    /\ rResponse' = ResponseAfter(rResponse, rRules)
    /\ rpc' = "responded"
    /\ UNCHANGED <<rText, rMessages, rRules, rOut>>
    /\ UNCHANGED <<retryVars, delayVars, fileVars, parserVars, requestVars, blankVars, logCallVars>>

NextRegex == ApplyText \/ ProcessMessages \/ ProcessResponse

SpecRegex == InitRegex /\ [][NextRegex]_vars

-----------------------------------------------------------------------------
(* Properties of the retry sequence (Spec).                                 *)

\* how many events of one kind the coordinator has made
Count(e) == Cardinality({i \in DOMAIN trace : trace[i].ev = e})

\* the coordinator's events of a sequence that failed k times and then made call
\* k + 1: call 1, log_error 1, log_retry 1, sleep 1, call 2, ..., call k + 1
RetriedTrace(k) ==
    [i \in 1..(4 * k + 1) |->
        LET n == ((i - 1) \div 4) + 1
            j == (i - 1) % 4
        IN  CASE j = 0 -> Ev("call", n)
              [] j = 1 -> Ev("log_error", n)
              [] j = 2 -> Ev("log_retry", n)
              [] j = 3 -> Ev("sleep", n)]

IsCallOrSleep(e) == e.ev \in {"call", "sleep"}
IsRetryLog(e) == e.ev = "log_retry"

\* C1: when every call of the attempt operation fails with a retryable failure,
\* the coordinator (retry_with_backoff, and retry_with_conditional_logic) ends by
\* raising after exactly max_retries + 1 calls, and what it raises is the failure
\* of the last call.
C1_RetryableExhaustsBudget ==
    (pc = "done" /\ result.kind = "raise" /\ onlyRetryable) =>
        /\ Count("call") = max_retries + 1
        /\ Count("sleep") = max_retries
        /\ result = funcOutcome
        /\ RetryableFailure(result.exc)

\* C1 witness: retry_with_conditional_logic with max_retries = 2 has raised the 503
\* of its third call.
C1_Witness ==
    /\ pc = "done" /\ mode = "conditional" /\ max_retries = 2 /\ onlyRetryable
    /\ result = Raise(Exc("HTTPError", 503))
    /\ Count("call") = 3

\* C2: when the first k attempts fail retryably and attempt k + 1 succeeds,
\* retry_with_backoff makes k + 1 calls with one wait after each failure, returns
\* what the successful call returned, and - with an error logger configured -
\* records exactly k retry-log entries numbered 1..k, each one between the failure
\* and its wait.
C2_SucceedsAfterRetries ==
    (pc = "done" /\ mode = "backoff" /\ result.kind = "return" /\ onlyRetryable) =>
        LET k == attempt - 1
        IN  /\ k <= max_retries
            /\ Count("call") = k + 1
            /\ Count("sleep") = k
            /\ result = funcOutcome
            /\ SelectSeq(trace, IsCallOrSleep) = SelectSeq(RetriedTrace(k), IsCallOrSleep)
            /\ hasLogger =>
                /\ trace = RetriedTrace(k)
                /\ SelectSeq(trace, IsRetryLog) = [i \in 1..k |-> Ev("log_retry", i)]

\* C2 witness: two 503 failures, then a completion, with a logger.
C2_Witness ==
    /\ pc = "done" /\ mode = "backoff" /\ hasLogger /\ onlyRetryable
    /\ result.kind = "return" /\ result.vt = "json"
    /\ attempt = 3 /\ Count("log_retry") = 2

\* C3: for a request that is not streamed, once an error response matches an
\* enabled hard-stop rule no further exchange is made - the sequence has exactly one
\* exchange when the first response matches - and the caller gets, as a returned
\* value, a payload of type hard_stop_error and code hard_stop_condition_met whose
\* message is the rule's user_message when the rule sets add_user_message.
C3_HardStopEndsSequence ==
    (hardStopAt # 0 /\ ~stream) =>
        /\ exchanges = hardStopAt
        /\ pc \in {"returned", "done"}
        /\ funcOutcome.kind = "return" /\ funcOutcome.vt = "hard_stop"
        /\ funcOutcome.payload.type = "hard_stop_error"
        /\ funcOutcome.payload.code = "hard_stop_condition_met"
        /\ \E i \in 1..Len(cfg.hard_stop.rules) :
               LET rule == cfg.hard_stop.rules[i]
               IN  /\ Contains(LowerText(RawText(resp)), LowerText(rule.pattern))
                   /\ rule.add_user_message =>
                          funcOutcome.payload.message = rule.user_message
        /\ pc = "done" => result = funcOutcome

\* C3 witness: max_retries = 2, the first response matches, the sequence is over
\* after one exchange with the rule's message.
C3_Witness ==
    /\ pc = "done" /\ ~stream /\ max_retries = 2
    /\ hardStopAt = 1 /\ exchanges = 1
    /\ result.vt = "hard_stop"
    /\ result.payload.message = <<"please", "rephrase">>

\* C4: in retry_with_backoff, a first attempt that fails with an HTTP status of
\* fail_codes is never followed by a backoff wait.
C4_PermanentFailsOnce ==
    (mode = "backoff" /\ attempt = 1 /\ pc = "sleep") => ~PermanentFailure(funcOutcome.exc)

\* C4: the state the code reaches instead - a second call after a 400.
C4_Retried400 ==
    /\ mode = "backoff" /\ attempt = 2 /\ pc = "call"
    /\ funcOutcome = Raise(Exc("HTTPError", 400))

\* C5: a failure of no known class - an HTTP status outside the three tables, an
\* exception of an unrecognized kind - is never followed by a backoff wait, in
\* either coordinator.
C5_UnknownNeverRetried ==
    pc = "sleep" => ~UnknownFailure(funcOutcome.exc)

\* C5: the state the code reaches instead - a second call after a 500.
C5_Retried500 ==
    /\ mode = "backoff" /\ attempt = 2 /\ pc = "call"
    /\ funcOutcome = Raise(Exc("HTTPError", 500))

\* the strings a recategorization rule is tried on
CandidateTexts(r, c) ==
    IF r.fmt = "text" THEN {r.content}
    ELSE IF ~c.parsing.extraction_enabled THEN {}
    ELSE {t \in {r.content, r.note} :
            \/ (t = r.content /\ r.fmt = "completion"
                /\ \E i \in 1..Len(c.parsing.paths) :
                       c.parsing.paths[i] = "choices[0].message.content")
            \/ (t = r.content /\ r.fmt = "error"
                /\ \E i \in 1..Len(c.parsing.paths) : c.parsing.paths[i] = "error.message")
            \/ (t = r.note /\ r.fmt = "error"
                /\ \E i \in 1..Len(c.parsing.paths) : c.parsing.paths[i] = "proxy_note")}

\* a 200 response a (200 -> 429) recategorization rule matches
Recategorized429(r, c) ==
    /\ r.status = 200
    /\ c.present /\ c.parsing.enabled /\ c.parsing.recat_enabled
    /\ \E i \in 1..Len(c.parsing.rules) :
           LET rule == c.parsing.rules[i]
           IN  /\ rule.original_status = 200 /\ rule.new_status = 429
               /\ \E t \in CandidateTexts(r, c) :
                      Contains(LowerText(t), LowerText(rule.pattern))

\* C6: with a (200 -> 429) rule matching a 200 response of a request that is not
\* streamed, forward_request raises an HTTP failure of status 429 instead of
\* returning, and the coordinator waits and calls again while budget remains: it
\* only ends the sequence with that failure when attempt max_retries + 1 was made.
C6_RecategorizedIsRetried ==
    (~stream /\ pc \in {"returned", "sleep", "done"} /\ Recategorized429(resp, cfg)) =>
        /\ funcOutcome = Raise(Exc("HTTPError", 429))
        /\ pc = "sleep" => attempt <= max_retries /\ delay > 0
        /\ pc = "done" => result = funcOutcome /\ attempt = max_retries + 1

\* C6 witness: retry_with_backoff is about to make its second call after a
\* completion saying "model is OVERLOADED" was recategorized.
C6_Witness ==
    /\ mode = "backoff" /\ pc = "call" /\ attempt = 2 /\ ~stream
    /\ resp.fmt = "completion" /\ Recategorized429(resp, cfg)
    /\ Count("sleep") = 1

\* C7: while every exchange of one call of forward_request (started without a
\* retry count) brings a blank completion, the exchange is re-issued - three times,
\* four exchanges in all - and then the fourth body is returned as a normal result;
\* the call never raises.
C7_BlankReissuedThreeTimes ==
    (callExchanges >= 1 /\ blankSeen = callExchanges) =>
        /\ pc = "exchange" => callExchanges <= 3 /\ retry_count = callExchanges
        /\ pc # "exchange" =>
               /\ callExchanges = 4
               /\ funcOutcome = ReturnJson(resp)
               /\ BlankCompletion(funcOutcome.body)

\* C7 witness: a sequence has ended by returning the fourth of four blank
\* completions.
C7_Witness ==
    /\ pc = "done" /\ callExchanges = 4 /\ blankSeen = 4
    /\ result.kind = "return" /\ BlankCompletion(result.body)

-----------------------------------------------------------------------------
(* Properties of calculate_retry_delay (SpecDelay).                         *)

\* C8: for every attempt n >= 1, every jitter draw within +/-25% and every
\* base_delay >= 0 and max_delay >= 0, calculate_retry_delay(n) lies in
\* [0, max_delay].
C8_DelayWithinBounds ==
    dAttempt >= 1 => (0 <= dResult /\ dResult <= dMax * DelayUnit)

\* C8 witness: base_delay 2, max_delay 3, attempt 4, the largest jitter: the
\* uncapped delay of 20 seconds is returned as max_delay.
C8_Witness ==
    /\ dBase = 2 /\ dMax = 3 /\ dAttempt = 4 /\ dJitter = JitterSteps
    /\ dResult = 3 * DelayUnit

-----------------------------------------------------------------------------
(* Properties of the regex helpers (SpecRegex).                             *)

\* the rule is meant for a message of this role
MeantFor(rule, role) ==
    Lower(rule.apply_to) = "all" \/ Lower(rule.apply_to) = Lower(role)

\* the rules one after the other, each on the text the previous one left; a rule
\* not meant for the role, without a pattern, or failing is passed over
RECURSIVE Chained(_, _, _)
Chained(text, rules, role) ==
    IF rules = <<>> THEN text
    ELSE LET rule == Head(rules)
             applied == IF MeantFor(rule, role) /\ rule.pattern # <<>>
                           /\ ReSubError(rule) = "none"
                        THEN ReSub(rule.pattern, rule.replacement, text, rule.flags = "i")
                        ELSE text
         IN  Chained(applied, Tail(rules), role)

\* C9: when process_messages_with_regex returns, each message carries the content
\* obtained by applying, in list order and each on the output of the previous one,
\* exactly the rules whose apply_to is "all" or the message's role, compared
\* case-insensitively; a message whose role matches no rule keeps its content, and
\* roles are passed through.
C9_RulesFilteredAndChained ==
    (rOut.op = "process" /\ rOut.kind = "return") =>
        /\ Len(rOut.msgs) = Len(rMessages)
        /\ \A i \in 1..Len(rMessages) :
            /\ rOut.msgs[i].role = rMessages[i].role
            /\ rOut.msgs[i].content = Chained(rMessages[i].content, rRules, rMessages[i].role)
            /\ (\A j \in 1..Len(rRules) : ~MeantFor(rRules[j], rMessages[i].role))
                   => rOut.msgs[i].content = rMessages[i].content

\* C9 witness: "Hello world" of a User message becomes "hi world" by the user rule
\* and then "yo world" by the ALL rule, while an assistant message only gets the
\* ALL rule.
C9_Witness ==
    /\ rOut.op = "process" /\ rOut.kind = "return"
    /\ rRules = <<Rule(<<"hello">>, TRUE, <<"hi">>, "literal", "i", "user"),
                  Rule(<<"hi">>, TRUE, <<"yo">>, "literal", "", "ALL")>>
    /\ rMessages = <<Message("User", <<"Hello", "world">>),
                     Message("assistant", <<"Hello", "world">>)>>
    /\ rOut.msgs = <<Message("User", <<"yo", "world">>),
                     Message("assistant", <<"Hello", "world">>)>>

\* C10: apply_regex_replacements never raises: a rule that fails to compile or
\* whose application raises is skipped, and the result is the text the other rules
\* produce in order.
C10_NeverRaises ==
    rOut.op = "apply" =>
        /\ rOut.kind = "return"
        /\ rOut.text = Chained(rText, rRules, "user")

\* C10: the state the code reaches instead - the IndexError of a replacement
\* template naming an unknown group leaves the function.
C10_IndexErrorEscapes ==
    /\ rOut.op = "apply" /\ rOut.kind = "raise" /\ rOut.exc = "IndexError"
    /\ rText = <<"Hello", "world">>
    /\ rRules = <<Rule(<<"world">>, TRUE, <<>>, "unknown_group_name", "", "all")>>

-----------------------------------------------------------------------------
(* Termination of the retry sequence (SpecLive): every exchange and every   *)
(* wait returns, so a step that can be taken is eventually taken.           *)

\* the sequences of a handler without an error logger, for a request that is not
\* streamed: the logger only adds events to the trace and a streamed request
\* returns at its first exchange
InitLive == Init /\ ~hasLogger /\ ~stream

\* the coordinator takes each of its own steps when it can, a wait returns, and an
\* exchange does not stay open for ever: if no response ends it, the request raises
Fairness ==
    /\ WF_vars(CallAttempt)
    /\ WF_vars(AttemptRaises)
    /\ WF_vars(ReturnResult)
    /\ WF_vars(HandleFailureBackoff)
    /\ WF_vars(HandleFailureConditional)
    /\ WF_vars(Sleep)

SpecLive == InitLive /\ [][Next]_vars /\ Fairness

\* C11: for any sequence of upstream outcomes, retry_with_backoff and
\* retry_with_conditional_logic never make more than max_retries + 1 calls of the
\* attempt operation, and the sequence eventually returns or raises.
C11_TerminatesWithinBudget ==
    /\ [](Count("call") <= max_retries + 1)
    /\ <>(pc = "done" /\ result.kind \in {"return", "raise"})

\* C11 witness: retry_with_conditional_logic with max_retries = 0 on the models
\* endpoint waits after a 404 and then leaves the loop: one call, one wait, the 404
\* raised.
C11_Witness ==
    /\ pc = "done" /\ mode = "conditional" /\ max_retries = 0
    /\ Count("call") = 1 /\ Count("sleep") = 1
    /\ result = Raise(Exc("HTTPError", 404))

-----------------------------------------------------------------------------
(* How a retry sequence ends (Spec).                                        *)

\* C12: a retry sequence has no result until it ends, and it ends in exactly one
\* of two ways: it returns the value the last call of the attempt operation
\* returned (a body, a hard-stop payload, the raw response of a streamed request),
\* with no wait after that call, or it raises the failure the last call raised and
\* nothing else.
C12_ReturnsOrRaisesLast ==
    /\ pc # "done" => result = NoOutcome
    /\ pc = "done" =>
        /\ result.kind \in {"return", "raise"}
        /\ result = funcOutcome
        /\ Count("call") = attempt \/ Count("call") = attempt - 1
        /\ result.kind = "return" =>
            /\ result.vt \in {"json", "hard_stop", "raw"}
            /\ result.exc = NoExc
            /\ trace[Len(trace)] = Ev("call", attempt)
        /\ result.kind = "raise" =>
            /\ result.vt = "none"
            /\ result.exc.exc \in FailureKinds \cup {"JSONDecodeError", "IndexError"}

\* C12 witness: retry_with_conditional_logic retried a first failure and then
\* raised the 400 of its second call.
C12_Witness ==
    /\ pc = "done" /\ mode = "conditional" /\ Count("call") = 2
    /\ result = Raise(Exc("HTTPError", 400))

-----------------------------------------------------------------------------
(* Retry sequences whose error logger may fail (SpecLog).                   *)

\* a handler with an error logger, a client without configuration, a request that
\* is not streamed; the logger's calls may raise
InitLog == InitSequence /\ hasLogger /\ ~stream /\ ~cfg.present /\ loggerRaises \in BOOLEAN

SpecLog == InitLog /\ [][Next]_vars

\* C13: a failing call of the error logger does not abort the sequence: whenever
\* the sequence ends by raising, what it raises is the failure of the last call of
\* the attempt operation, reached after the same calls as with a working logger (a
\* retryable failure is raised only when attempt max_retries + 1 was made).
C13_LoggerFailureDoesNotAbort ==
    (pc = "done" /\ result.kind = "raise") =>
        /\ result = funcOutcome
        /\ (mode = "backoff" /\ RetryableFailure(funcOutcome.exc)) =>
               attempt = max_retries + 1

\* C13: the state the code reaches instead - with max_retries = 1 the sequence is
\* over after one call that timed out, raising the logger's exception.
C13_AbortedByLogger ==
    /\ pc = "done" /\ mode = "backoff" /\ max_retries = 1
    /\ funcOutcome = Raise(Exc("Timeout", 0))
    /\ result = Raise(Exc("LoggerError", 0))
    /\ Count("call") = 1

-----------------------------------------------------------------------------
(* The order of the checks in one exchange (Spec).                          *)

\* the body of a response matches an enabled hard-stop rule, whatever its status
HardStopBody(r, c) ==
    /\ r.fmt # "none"
    /\ c.present /\ c.hard_stop.enabled
    /\ \E i \in 1..Len(c.hard_stop.rules) :
           /\ c.hard_stop.rules[i].pattern # <<>>
           /\ Contains(LowerText(RawText(r)), LowerText(c.hard_stop.rules[i].pattern))

\* C14: every exchange of a request that is not streamed whose response body
\* matches an enabled hard-stop rule, whatever the HTTP status of the response,
\* ends by returning the hard-stop payload: it is not recategorized, it raises no
\* failure to classify, and no wait or further exchange follows it.
C14_HardStopWhateverStatus ==
    (~stream /\ pc \in {"returned", "sleep", "done"} /\ HardStopBody(resp, cfg)) =>
        /\ funcOutcome.kind = "return" /\ funcOutcome.vt = "hard_stop"
        /\ pc # "sleep"

\* C14: the state the code reaches instead - a 200 response carrying the hard-stop
\* signature was recategorized to 429 and retry_with_backoff waits to call again.
C14_Status200Retried ==
    /\ ~stream /\ mode = "backoff" /\ pc = "sleep"
    /\ resp.status = 200 /\ HardStopBody(resp, cfg)
    /\ funcOutcome = Raise(Exc("HTTPError", 429))

\* recategorization rule i of the configuration is meant for the response: its
\* original status is the response's and its pattern occurs, in any letter case,
\* in one of the texts the parser looks at
RuleMeantFor(r, c, i) ==
    LET rule == c.parsing.rules[i]
    IN  /\ c.present /\ c.parsing.enabled /\ c.parsing.recat_enabled
        /\ rule.original_status = r.status
        /\ rule.pattern # <<>>
        /\ \E t \in CandidateTexts(r, c) : Contains(LowerText(t), LowerText(rule.pattern))

\* the status after recategorization: the new status of the first rule meant for
\* the response, the status of the response when there is none
StatusAfterRules(r, c) ==
    IF \E i \in 1..Len(c.parsing.rules) : RuleMeantFor(r, c, i)
    THEN LET i == CHOOSE k \in 1..Len(c.parsing.rules) :
                      /\ RuleMeantFor(r, c, k)
                      /\ \A j \in 1..(k - 1) : ~RuleMeantFor(r, c, j)
         IN  c.parsing.rules[i].new_status
    ELSE r.status

\* C15: with a client configuration (hence a response parser), every exchange of a
\* request that is not streamed whose response matches no hard-stop rule is
\* recategorized before its status is classified, for a 200 response with a JSON
\* body, a 200 response with another body and a response of another status alike:
\* a response recategorized to a status of 400 or more raises an HTTP failure, and
\* every HTTP failure the exchange raises carries the recategorized status.
C15_RecategorizedBeforeClassified ==
    (~stream /\ pc = "returned" /\ cfg.present /\ resp.fmt # "none"
        /\ ~HardStopResponse(resp, cfg)) =>
        LET st == StatusAfterRules(resp, cfg)
        IN  /\ (st # resp.status /\ st >= 400) => funcOutcome = Raise(Exc("HTTPError", st))
            /\ (funcOutcome.kind = "raise" /\ funcOutcome.exc.exc = "HTTPError") =>
                   funcOutcome.exc.status = st

\* C15 witness: a 503 response saying "service unavailable" was recategorized by
\* a (503 -> 500) rule and the exchange raised an HTTP failure of status 500.
C15_Witness ==
    /\ ~stream /\ pc = "returned" /\ cfg.present
    /\ resp.status = 503 /\ StatusAfterRules(resp, cfg) = 500
    /\ funcOutcome = Raise(Exc("HTTPError", 500))

-----------------------------------------------------------------------------
(* Frame properties of the regex helpers (SpecRegex).                       *)

\* C16: a call of process_messages_with_regex leaves the input message objects as
\* they were, and when it returns, it returns one message per input message, in the
\* same order, with the fields of the input message and the same role and name:
\* only the content may differ.
C16_OnlyContentDiffers ==
    [][(rpc = "messages" /\ rpc' = "processed") =>
          /\ rMessages' = rMessages
          /\ rOut'.kind = "return" =>
                /\ Len(rOut'.msgs) = Len(rMessages)
                /\ \A i \in 1..Len(rMessages) :
                      /\ DOMAIN rOut'.msgs[i] = DOMAIN rMessages[i]
                      /\ \A f \in DOMAIN rMessages[i] \ {"content"} :
                             rOut'.msgs[i][f] = rMessages[i][f]]_vars

\* C16 witness: the named user message came back with a rewritten content, next to
\* an assistant message, and the input still reads "Hello world".
C16_Witness ==
    /\ rpc = "processed" /\ rOut.kind = "return"
    /\ rMessages = <<NamedMessage("user", <<"Hello", "world">>, "test_user"),
                     Message("assistant", <<"hi", "hi">>)>>
    /\ rOut.msgs[1] = NamedMessage("user", <<"hi", "world">>, "test_user")
    /\ rOut.msgs[2].content = <<"hi", "hi">>

\* every rule in list order, each on the text the previous one left, whatever its
\* apply_to; a rule without a pattern or failing is passed over
RECURSIVE ChainedAll(_, _)
ChainedAll(text, rules) ==
    IF rules = <<>> \/ text = <<>> THEN text
    ELSE LET rule == Head(rules)
             applied == IF rule.pattern # <<>> /\ ReSubError(rule) = "none"
                        THEN ReSub(rule.pattern, rule.replacement, text, rule.flags = "i")
                        ELSE text
         IN  ChainedAll(applied, Tail(rules))

\* C17: a call of process_response_with_regex leaves the input response as it was,
\* and when it returns, the returned response has the id and the choices of the
\* input, each choice with its finish_reason and its message's role and name, and
\* the content of every choice's message is the input content rewritten by every
\* rule of the list in order, whatever the rule's apply_to.
C17_EveryChoiceRewritten ==
    [][(rpc = "response" /\ rpc' = "responded") =>
          /\ rResponse' = rResponse
          /\ rResponseOut'.kind = "return" =>
                LET out == rResponseOut'.data
                IN  /\ out.id = rResponse.id
                    /\ out.has_choices = rResponse.has_choices
                    /\ Len(out.choices) = Len(rResponse.choices)
                    /\ \A i \in 1..Len(rResponse.choices) :
                          LET old == rResponse.choices[i]
                              new == out.choices[i]
                          IN  /\ new.finish_reason = old.finish_reason
                              /\ new.has_message = old.has_message
                              /\ new.message.role = old.message.role
                              /\ new.message.name = old.message.name
                              /\ new.message.content =
                                     IF old.has_message
                                     THEN ChainedAll(old.message.content, rRules)
                                     ELSE old.message.content]_vars

\* C17 witness: two choices with assistant messages were rewritten by a rule for
\* users and a rule for all roles; the second choice keeps finish_reason "length"
\* and its name.
C17_Witness ==
    /\ rpc = "responded" /\ rResponseOut.kind = "return"
    /\ rRules = <<Rule(<<"hello">>, TRUE, <<"hi">>, "literal", "i", "user"),
                  Rule(<<"hi">>, TRUE, <<"yo">>, "literal", "", "ALL")>>
    /\ rResponse.choices =
           <<Choice("stop", TRUE, Message("assistant", <<"hi", "hi">>)),
             Choice("length", TRUE, NamedMessage("assistant", <<"Hello", "world">>, "bot"))>>
    /\ rResponseOut.data.choices =
           <<Choice("stop", TRUE, Message("assistant", <<"yo", "yo">>)),
             Choice("length", TRUE, NamedMessage("assistant", <<"yo", "world">>, "bot"))>>

-----------------------------------------------------------------------------
(* error_logger.py: ErrorLogger.log_error and its file rotation, for an     *)
(* enabled logger whose folder exists.  A file of the folder is             *)
(* [filename, modified, oversized]: its name, its modification time and     *)
(* whether its size is above max_file_size_mb.  Only the files named *.log  *)
(* are kept: a file renamed to a backup leaves the folder.                  *)

LogFile(name, modified, oversized) ==
    [filename |-> name, modified |-> modified, oversized |-> oversized]

Filenames(files) == {f.filename : f \in files}

\* log_files.sort(key=lambda x: x['modified'])
RECURSIVE SortByModified(_)
SortByModified(files) ==
    IF files = {} THEN <<>>
    ELSE LET oldest == CHOOSE f \in files : \A g \in files : f.modified <= g.modified
         IN  <<oldest>> \o SortByModified(files \ {oldest})

\* a variant that removes one file less; the cap on the folder is sensitive to it
FilesToRemoveDownToCap(n, cap) == IF n >= cap THEN n - cap ELSE 0

\* files_to_remove = len(log_files) - self.max_files + 1 when the cap is reached
FilesToRemove(n, cap) == IF n >= cap THEN n - cap + 1 ELSE 0

\* the folder as the logger finds it: up to MaxInitialFiles files written at
\* times 1, 2, ..., any of them oversized
InitialFolders ==
    UNION { {{LogFile(t, t, t \in big) : t \in 1..k} : big \in SUBSET (1..k)} :
            k \in 0..MaxInitialFiles }

InitFiles(cs) ==
    /\ callers = cs
    /\ max_files \in 1..MaxFilesBound
    /\ folder \in InitialFolders
    /\ clock = MaxInitialFiles + 1
    /\ lpc = [p \in cs |-> "idle"]
    /\ listing = [p \in cs |-> {}]
    /\ log_files = [p \in cs |-> <<>>]
    /\ idx = [p \in cs |-> 0]
    /\ calls = 0 /\ finished = 0 /\ raced = {}
    /\ IdleRetry /\ IdleDelay /\ IdleRegex /\ IdleParser /\ IdleRequests /\ IdleBlank /\ IdleLogCall

\* log_error enters _manage_file_rotation, which lists the folder
ListFolder(p) ==
    /\ lpc[p] = "idle" /\ calls < MaxCalls
    /\ calls' = calls + 1
    /\ listing' = [listing EXCEPT ![p] = Filenames(folder)]
    /\ lpc' = [lpc EXCEPT ![p] = "listed"]
    /\ UNCHANGED <<callers, max_files, folder, clock, log_files, idx, finished, raced>>
    /\ UNCHANGED <<retryVars, delayVars, regexVars, parserVars, requestVars, blankVars, logCallVars>>

\* os.stat of every listed file and the sort; a listed file that is gone makes
\* os.stat raise, which the outer except takes: the rotation is given up
StatFiles(p) ==
    /\ lpc[p] = "listed"
    /\ IF listing[p] \subseteq Filenames(folder)
       THEN LET found == SortByModified({f \in folder : f.filename \in listing[p]})
            IN  /\ log_files' = [log_files EXCEPT ![p] = found]
                /\ idx' = [idx EXCEPT ![p] = 1]
                /\ lpc' = [lpc EXCEPT ![p] = "removing"]
                /\ UNCHANGED raced
       ELSE /\ raced' = raced \cup {p}
            /\ log_files' = [log_files EXCEPT ![p] = <<>>]
            /\ lpc' = [lpc EXCEPT ![p] = "write"]
            /\ UNCHANGED idx
    /\ UNCHANGED <<callers, max_files, folder, clock, listing, calls, finished>>
    /\ UNCHANGED <<retryVars, delayVars, regexVars, parserVars, requestVars, blankVars, logCallVars>>

\* one turn of the loop that removes the oldest files; a failing os.remove is
\* logged and passed over
RemoveOldest(p) ==
    /\ lpc[p] = "removing"
    /\ IF idx[p] <= FilesToRemove(Len(log_files[p]), max_files)
       THEN LET file == log_files[p][idx[p]]
            IN  /\ IF file.filename \in Filenames(folder)
                   THEN /\ folder' = {f \in folder : f.filename # file.filename}
                        /\ UNCHANGED raced
                   ELSE /\ raced' = raced \cup {p}
                        /\ UNCHANGED folder
                /\ idx' = [idx EXCEPT ![p] = idx[p] + 1]
                /\ UNCHANGED lpc
       ELSE /\ idx' = [idx EXCEPT ![p] = 1]
            /\ lpc' = [lpc EXCEPT ![p] = "renaming"]
            /\ UNCHANGED <<folder, raced>>
    /\ UNCHANGED <<callers, max_files, clock, listing, log_files, calls, finished>>
    /\ UNCHANGED <<retryVars, delayVars, regexVars, parserVars, requestVars, blankVars, logCallVars>>

\* one turn of the loop over log_files that renames the oversized ones to backups;
\* a failing os.rename is logged and passed over (a file this caller has just
\* removed itself fails here without any other call)
RenameOversized(p) ==
    /\ lpc[p] = "renaming"
    /\ IF idx[p] <= Len(log_files[p])
       THEN LET file == log_files[p][idx[p]]
                mine == idx[p] <= FilesToRemove(Len(log_files[p]), max_files)
            IN  /\ IF ~file.oversized THEN UNCHANGED <<folder, raced>>
                   ELSE IF file.filename \in Filenames(folder)
                   THEN /\ folder' = {f \in folder : f.filename # file.filename}
                        /\ UNCHANGED raced
                   ELSE /\ raced' = IF mine THEN raced ELSE raced \cup {p}
                        /\ UNCHANGED folder
                /\ idx' = [idx EXCEPT ![p] = idx[p] + 1]
                /\ UNCHANGED lpc
       ELSE /\ lpc' = [lpc EXCEPT ![p] = "write"]
            /\ UNCHANGED <<folder, raced, idx>>
    /\ UNCHANGED <<callers, max_files, clock, listing, log_files, calls, finished>>
    /\ UNCHANGED <<retryVars, delayVars, regexVars, parserVars, requestVars, blankVars, logCallVars>>

\* the file is written under the name of the current millisecond, over a file of
\* that name if there is one; a failing write is logged and log_error returns ""
WriteFile(p) ==
    /\ lpc[p] = "write"
    /\ \/ \E oversized \in BOOLEAN :
              folder' = {f \in folder : f.filename # clock}
                            \cup {LogFile(clock, clock, oversized)}
       \/ UNCHANGED folder
    /\ lpc' = [lpc EXCEPT ![p] = "idle"]
    /\ finished' = finished + 1
    /\ UNCHANGED <<callers, max_files, clock, listing, log_files, idx, calls, raced>>
    /\ UNCHANGED <<retryVars, delayVars, regexVars, parserVars, requestVars, blankVars, logCallVars>>

\* a millisecond passes
Tick ==
    /\ clock < MaxInitialFiles + 1 + MaxTicks
    /\ clock' = clock + 1
    /\ UNCHANGED <<callers, max_files, folder, lpc, listing, log_files, idx, calls,
                   finished, raced>>
    /\ UNCHANGED <<retryVars, delayVars, regexVars, parserVars, requestVars, blankVars, logCallVars>>

NextFiles ==
    \/ \E p \in callers : ListFolder(p)
    \/ \E p \in callers : StatFiles(p)
    \/ \E p \in callers : RemoveOldest(p)
    \/ \E p \in callers : RenameOversized(p)
    \/ \E p \in callers : WriteFile(p)
    \/ Tick

\* one retry sequence logs: its calls of log_error come one after the other
InitRotation == InitFiles({1})
SpecRotation == InitRotation /\ [][NextFiles]_vars

\* two retry sequences log to the same folder; nothing in ErrorLogger orders
\* their steps
InitConcurrent == InitFiles({1, 2})
SpecConcurrent == InitConcurrent /\ [][NextFiles]_vars

-----------------------------------------------------------------------------
(* Properties of the error-log folder (SpecRotation, SpecConcurrent).       *)

\* the files caller p took out of its list to remove
RemovedBy(p) ==
    {log_files[p][i] : i \in 1..FilesToRemove(Len(log_files[p]), max_files)}

\* C18: with calls of log_error that come one after the other on an enabled
\* logger with max_files >= 1, the folder holds at most max_files .log files
\* whenever a call is over; when a call comes to its write, the rotation has left
\* fewer than max_files files, and every file it removed is older than every file
\* it left.
C18_AtMostMaxFiles ==
    \A p \in callers :
        /\ (finished >= 1 /\ lpc[p] = "idle") => Cardinality(folder) <= max_files
        /\ lpc[p] = "write" =>
              /\ Cardinality(folder) < max_files
              /\ \A r \in RemovedBy(p) : \A f \in folder : r.modified < f.modified

\* C18 witness: three calls are over with max_files = 2; the last one found two
\* files, removed the older one, and the folder now holds the two newest files,
\* both written by the calls.
C18_Witness ==
    /\ callers = {1} /\ lpc[1] = "idle" /\ finished = 3 /\ max_files = 2
    /\ Len(log_files[1]) = 2
    /\ log_files[1][1].filename \notin Filenames(folder)
    /\ Cardinality(folder) = 2
    /\ \A f \in folder : f.modified > MaxInitialFiles

\* C19: with two retry sequences calling log_error on the same folder, under
\* every interleaving of their steps no rotation step fails because the other call
\* removed or renamed a file it had listed, and whenever both callers are idle
\* after a call the folder holds at most max_files .log files.
C19_AsIfSynchronized ==
    /\ raced = {}
    /\ (finished >= 1 /\ \A p \in callers : lpc[p] = "idle") =>
           Cardinality(folder) <= max_files

\* C19: the state the code reaches instead - with max_files = 2 both callers
\* listed the same two files, one removal found the file gone, both wrote, and
\* the folder holds three files.
C19_OverCapAfterRace ==
    /\ callers = {1, 2} /\ max_files = 2 /\ finished = 2
    /\ lpc[1] = "idle" /\ lpc[2] = "idle"
    /\ listing[1] = listing[2] /\ Cardinality(listing[1]) = 2
    /\ raced # {}
    /\ Cardinality(folder) = 3

-----------------------------------------------------------------------------
(* Properties of the classification tables (Spec).                          *)

\* the tables a status is listed in
TablesOf(status) ==
    {t \in {"retry", "fail", "conditional"} :
        \/ (t = "retry" /\ status \in retry_codes)
        \/ (t = "fail" /\ status \in fail_codes)
        \/ (t = "conditional" /\ status \in conditional_retry_codes)}

\* C20: retry_codes, fail_codes and conditional_retry_codes are pairwise disjoint:
\* the status of every HTTP failure the coordinator is handed is listed in at most
\* one of the three tables.
C20_TablesDisjoint ==
    (funcOutcome.kind = "raise" /\ funcOutcome.exc.exc = "HTTPError") =>
        Cardinality(TablesOf(funcOutcome.exc.status)) <= 1

\* C20: the state the code reaches instead - retry_with_conditional_logic handles
\* a 423, which retry_codes and conditional_retry_codes both list.
C20_Status423InTwoTables ==
    /\ mode = "conditional" /\ pc = "sleep"
    /\ funcOutcome = Raise(Exc("HTTPError", 423))
    /\ TablesOf(423) = {"retry", "conditional"}

-----------------------------------------------------------------------------
(* Properties of the classification of exceptions (Spec).                   *)

\* the kinds the specification calls transient, and those it calls configuration
TransientKinds == {"Timeout", "ConnectionError", "gaierror", "socket.timeout",
                   "MaxRetryError", "ReadTimeoutError", "ConnectTimeoutError",
                   "ProtocolError", "DecodeError", "urllib3.SSLError", "ssl.SSLError",
                   "ssl.CertificateError", "ContentDecodingError",
                   "ChunkedEncodingError", "JSONDecodeError"}
ConfigurationKinds == {"URLRequired", "InvalidURL", "MissingSchema", "TooManyRedirects",
                       "ProxyError", "ValueError", "TypeError"}

\* C21: should_retry_exception answers by the kind of the exception the attempt
\* raised: true for a network, timeout, connection, protocol, TLS or content-decode
\* kind, false for a configuration kind (URLRequired, InvalidURL, MissingSchema,
\* TooManyRedirects, ProxyError, ValueError, TypeError), which retry_with_backoff
\* therefore never follows with a wait.
C21_ClassifiedByKind ==
    funcOutcome.kind = "raise" =>
        LET e == funcOutcome.exc
        IN  /\ e.exc \in TransientKinds => should_retry_exception(e)
            /\ e.exc \in ConfigurationKinds =>
                  /\ ~should_retry_exception(e)
                  /\ mode = "backoff" => pc # "sleep"

\* C21: the state the code reaches instead - retry_with_backoff waits to call
\* again after requests raised MissingSchema.
C21_MissingSchemaRetried ==
    /\ mode = "backoff" /\ pc = "sleep" /\ attempt = 1
    /\ funcOutcome = Raise(Exc("MissingSchema", 0))
    /\ should_retry_exception(funcOutcome.exc)

-----------------------------------------------------------------------------
(* Properties of the /models endpoint (SpecModels).                         *)

\* C22: whenever the retry sequence of the models request ended in a failure, an
\* HTTP error or any other exception, the endpoint answers with status 200 and the
\* list of DEFAULT_MODELS; it answers an upstream failure in no other way.
C22_ModelsNeverFails ==
    pc = "responded" =>
        /\ result.kind = "raise" => reply = Reply(200, "default_models")
        /\ reply.status = 200

\* C22 witness: after three calls answered 503 the sequence raised the HTTP
\* failure and the endpoint answered with the default models.
C22_Witness ==
    /\ pc = "responded" /\ max_retries = 2 /\ Count("call") = 3
    /\ result = Raise(Exc("HTTPError", 503))
    /\ reply = Reply(200, "default_models")

-----------------------------------------------------------------------------
(* Properties of retry_with_conditional_logic (Spec).                       *)

\* C24: conditional retries have a counter of their own: when every earlier
\* failure of the sequence was retried unconditionally, a 404 for a models or
\* chat/completions endpoint is conditional attempt 1 and, with budget left, is
\* retried, whatever the number of unconditional attempts before it.
C24_OwnConditionalCounter ==
    (/\ mode = "conditional" /\ pc = "returned" /\ onlyRetryable
     /\ funcOutcome = Raise(Exc("HTTPError", 404))
     /\ endpoint \in {"models", "chat/completions"}
     /\ attempt <= max_retries) =>
        ConditionalDecision(funcOutcome.exc, attempt).act = "retry"

\* C24: the state the code reaches instead - with max_retries = 2 and a
\* chat/completions endpoint, the first call failed with a retryable failure and
\* was retried, the second call answered 404, the first conditional failure of
\* the sequence, and the coordinator raises it without another call.
C24_FirstConditionalNotRetried ==
    /\ mode = "conditional" /\ pc = "returned" /\ endpoint = "chat/completions"
    /\ max_retries = 2 /\ attempt = 2 /\ onlyRetryable
    /\ Count("call") = 2 /\ Count("sleep") = 1
    /\ funcOutcome = Raise(Exc("HTTPError", 404))
    /\ ConditionalDecision(funcOutcome.exc, attempt).act = "raise"

-----------------------------------------------------------------------------
(* retry_with_conditional_logic around an attempt operation that fails the  *)
(* same way at every call (SpecPersistent).                                 *)

\* the statuses the attempt operation may keep failing with: those of the three
\* tables and one of no table
PersistentStatuses == retry_codes \cup fail_codes \cup conditional_retry_codes \cup {500}

\* `result = func(*args, **kwargs)` raises an HTTPError that carries a response:
\* any status at the first call, the status of the call before at every later one
AttemptFailsAgain ==
    /\ pc = "exchange"
    /\ \E s \in PersistentStatuses :
           funcOutcome' = IF attempt = 1 THEN Raise(Exc("HTTPError", s)) ELSE funcOutcome
    /\ resp' = NoResponse
    /\ exchanges' = exchanges + 1
    /\ callExchanges' = callExchanges + 1
    /\ pc' = "returned"
    /\ UNCHANGED <<mode, max_retries, hasLogger, loggerRaises, reply,
                   endpoint, stream, cfg, attempt,
                   retry_count, result, trace, delay, blankSeen, onlyRetryable,
                   hardStopAt>>
    /\ UNCHANGED <<delayVars, regexVars, fileVars, parserVars, requestVars, blankVars, logCallVars>>

InitPersistent == Init /\ mode = "conditional" /\ ~stream /\ ~cfg.present

NextPersistent ==
    \/ CallAttempt
    \/ AttemptFailsAgain
    \/ HandleFailureConditional
    \/ Sleep

SpecPersistent == InitPersistent /\ [][NextPersistent]_vars

\* the number of calls the specification gives a persistent 404, by endpoint
CallsFor404(ep) ==
    IF ep = "models" THEN 3 ELSE IF ep = "chat/completions" THEN 2 ELSE 1

\* C25: with max_retries >= 2 and a 404 at every call, the attempt operation is
\* called exactly 3 times for a models endpoint, exactly twice for a
\* chat/completions endpoint and exactly once for any other endpoint, and the
\* sequence ends by raising the last 404.
C25_Persistent404Calls ==
    (max_retries >= 2 /\ funcOutcome = Raise(Exc("HTTPError", 404))) =>
        /\ Count("call") <= CallsFor404(endpoint)
        /\ pc = "sleep" => attempt < CallsFor404(endpoint)
        /\ pc = "done" => /\ Count("call") = CallsFor404(endpoint)
                          /\ result = Raise(Exc("HTTPError", 404))

\* C25: a models endpoint answered 404 three times and the third 404 was raised
C25_Witness ==
    /\ pc = "done" /\ endpoint = "models" /\ max_retries = 2
    /\ Count("call") = 3 /\ Count("sleep") = 2
    /\ result = Raise(Exc("HTTPError", 404))

\* the statuses the specification retries on the first attempt only
FirstAttemptOnlyStatuses == {411, 412, 413, 414, 416, 417, 418, 421}

\* C26: a failure with status 411, 412, 413, 414, 416, 417, 418 or 421 that
\* persists is retried on the first attempt only: with a retry allowed, the
\* sequence ends after exactly two calls and raises the second failure.
C26_RetriedOnFirstAttemptOnly ==
    (/\ pc = "done" /\ max_retries >= 1
     /\ funcOutcome.kind = "raise" /\ funcOutcome.exc.exc = "HTTPError"
     /\ funcOutcome.exc.status \in FirstAttemptOnlyStatuses) =>
        /\ Count("call") = 2
        /\ result = funcOutcome

\* C26: the state the code reaches instead - a 411 is raised after a single call,
\* because fail_codes lists it and the permanent test comes first.
C26_Status411NotRetried ==
    /\ pc = "done" /\ max_retries = 2 /\ attempt = 1
    /\ Count("call") = 1 /\ Count("sleep") = 0
    /\ is_permanent_failure(411) /\ should_retry_conditionally(411)
    /\ result = Raise(Exc("HTTPError", 411))

\* C27: the tests come in the order permanent, unconditional, conditional: a
\* status of fail_codes is raised after exactly one call even when
\* conditional_retry_codes or retry_codes lists it too, and a status of
\* retry_codes is retried as long as attempt <= max_retries, at the full delay,
\* even when conditional_retry_codes lists it too.
C27_PermanentThenUnconditionalThenConditional ==
    (funcOutcome.kind = "raise" /\ funcOutcome.exc.exc = "HTTPError") =>
        LET s == funcOutcome.exc.status IN
        /\ s \in fail_codes =>
              /\ Count("call") = 1 /\ pc # "sleep"
              /\ pc = "done" => result = funcOutcome
        /\ (s \in retry_codes /\ s \notin fail_codes) =>
              /\ pc = "sleep" => delay \in {SleepDelay(attempt, u, FALSE) : u \in JitterDraws}
              /\ pc = "done" => /\ Count("call") = max_retries + 1
                                /\ result = funcOutcome

\* C27: a 451, in retry_codes and conditional_retry_codes, failed a second time
\* and is being retried at the full delay of attempt 2, not at the halved delay of
\* a conditional retry
C27_Witness ==
    /\ pc = "sleep" /\ max_retries = 2 /\ attempt = 2 /\ Count("call") = 2
    /\ funcOutcome = Raise(Exc("HTTPError", 451))
    /\ should_retry(451) /\ should_retry_conditionally(451)
    /\ delay = SleepDelay(2, 0, FALSE)
    /\ delay # SleepDelay(2, 0, TRUE)

-----------------------------------------------------------------------------
(* Properties of the final-error record (Spec).                             *)

\* C28: with an error logger configured, a retry sequence of either coordinator
\* that ends by raising a failure has called log_final_error exactly once, with
\* the number of attempts made, by the time the failure is raised - whatever the
\* kind of the last failure.
C28_FinalErrorLoggedOnce ==
    (hasLogger /\ pc = "done" /\ result.kind = "raise") =>
        /\ Count("log_final") = 1
        /\ trace[Len(trace)] = Ev("log_final", Count("call"))

\* C28: the state the code reaches instead - retry_with_conditional_logic, with an
\* error logger, raises a timeout after its only call and log_final_error was
\* never called.
C28_TimeoutLeavesNoFinalRecord ==
    /\ mode = "conditional" /\ hasLogger /\ pc = "done" /\ max_retries = 0
    /\ result = Raise(Exc("Timeout", 0))
    /\ Count("call") = 1 /\ Count("log_final") = 0

-----------------------------------------------------------------------------
(* ResponseParser.parse_and_recategorize as a pure function (SpecParser).   *)

MaxRecatRules == 2
MaxPaths == 2

ErrorMessagePath == <<Part("error", -1), Part("message", -1)>>
ChoiceTextPath(i) == <<Part("choices", i), Part("text", -1)>>

\* "error.message", "choices[0].text", "choices[1].text"
ParserPaths == {ErrorMessagePath, ChoiceTextPath(0), ChoiceTextPath(1)}

\* two rules for a 200, one of them for a 500 too, and a rule without a pattern
ParserRules ==
    { RecatRule(<<"overloaded">>, 200, 429),
      RecatRule(<<"quota">>, 200, 503),
      RecatRule(<<"is", "overloaded">>, 500, 502),
      RecatRule(<<>>, 200, 400) }

ParserBodies ==
    { \* {"error": {"message": "Model is OVERLOADED"}}
      JsonBody(<<JObject(<<"error">>, <<2>>), JObject(<<"message">>, <<3>>),
                 JString(<<"Model", "is", "OVERLOADED">>)>>),
      \* {"error": {"message": ""}}
      JsonBody(<<JObject(<<"error">>, <<2>>), JObject(<<"message">>, <<3>>),
                 JString(<<>>)>>),
      \* {"error": {"message": 42}}
      JsonBody(<<JObject(<<"error">>, <<2>>), JObject(<<"message">>, <<3>>), JNumber>>),
      \* {"error": "quota exceeded"}
      JsonBody(<<JObject(<<"error">>, <<2>>), JString(<<"quota", "exceeded">>)>>),
      \* {"choices": [{"text": "model is overloaded"}]}
      JsonBody(<<JObject(<<"choices">>, <<2>>), JArray(<<3>>), JObject(<<"text">>, <<4>>),
                 JString(<<"model", "is", "overloaded">>)>>),
      \* {"choices": {"text": "model is overloaded"}}
      JsonBody(<<JObject(<<"choices">>, <<2>>), JObject(<<"text">>, <<3>>),
                 JString(<<"model", "is", "overloaded">>)>>),
      \* {"error": {"message": "quota exceeded"},
      \*  "choices": [{"text": "model is overloaded"}]}
      JsonBody(<<JObject(<<"error", "choices">>, <<2, 4>>), JObject(<<"message">>, <<3>>),
                 JString(<<"quota", "exceeded">>), JArray(<<5>>),
                 JObject(<<"text">>, <<6>>), JString(<<"model", "is", "overloaded">>)>>),
      \* ["overloaded"]
      JsonBody(<<JArray(<<2>>), JString(<<"overloaded">>)>>),
      \* bodies that are not JSON
      TextBody(<<"model", "is", "Overloaded">>),
      TextBody(<<"gateway", "page">>) }

\* everything enabled, or one of the three switches off
ParserSwitches ==
    {<<TRUE, TRUE, TRUE>>, <<FALSE, TRUE, TRUE>>, <<TRUE, FALSE, TRUE>>, <<TRUE, TRUE, FALSE>>}

\* ResponseParser(parsing_config) is built and handed a body and a status
InitParser ==
    /\ pBody \in ParserBodies
    /\ pStatus \in {200, 500}
    /\ \E sw \in ParserSwitches :
       \E paths \in SeqsUpTo(ParserPaths, MaxPaths) :
       \E rules \in SeqsUpTo(ParserRules, MaxRecatRules) :
           pParsing = Parsing(sw[1], sw[2], sw[3], paths, rules)
    /\ ppc = "parse" /\ pOut = NoParsed
    /\ IdleRetry /\ IdleDelay /\ IdleRegex /\ IdleFiles /\ IdleRequests /\ IdleBlank /\ IdleLogCall

\* new_status, parsing_info = parse_and_recategorize(response_text, original_status)
Parse ==
    /\ ppc = "parse"
    /\ pOut' = ParseAndRecategorize(pBody, pStatus, pParsing)
    /\ ppc' = "done"
    /\ UNCHANGED <<pBody, pStatus, pParsing>>
    /\ UNCHANGED <<retryVars, delayVars, regexVars, fileVars, requestVars, blankVars, logCallVars>>

NextParser == Parse

SpecParser == InitParser /\ [][NextParser]_vars

\* part of the path leads from node a of the document to node b
StepLeads(nodes, a, part, b) ==
    /\ nodes[a].kind = "object"
    /\ \E j \in 1..Len(nodes[a].names) :
          /\ nodes[a].names[j] = part.key
          /\ LET m == nodes[a].kids[j]
             IN  IF part.index = -1 THEN b = m
                 ELSE /\ nodes[m].kind = "array"
                      /\ part.index + 1 \in 1..Len(nodes[m].kids)
                      /\ b = nodes[m].kids[part.index + 1]

\* the path leads from the root of the document to node n
PathLeads(nodes, path, n) ==
    \E f \in [1..(Len(path) + 1) -> 1..Len(nodes)] :
        /\ f[1] = 1 /\ f[Len(path) + 1] = n
        /\ \A k \in 1..Len(path) : StepLeads(nodes, f[k], path[k], f[k + 1])

\* the text the path gives a candidate for: that of a non-empty string it leads to
PathGives(nodes, path, text) ==
    /\ text # <<>>
    /\ \E n \in 1..Len(nodes) :
           PathLeads(nodes, path, n) /\ nodes[n].kind = "string" /\ nodes[n].text = text

\* the strings a rule is tried on: the strings the configured paths give for a
\* JSON body, the whole raw text for another body
CandidateStrings(body, parsing) ==
    IF ~body.json THEN {body.text}
    ELSE IF ~parsing.extraction_enabled THEN {}
    ELSE {body.nodes[n].text : n \in {m \in 1..Len(body.nodes) :
              \E k \in 1..Len(parsing.paths) :
                  PathGives(body.nodes, parsing.paths[k], body.nodes[m].text)}}

\* rule i has the observed status and its pattern occurs, in any letter case, in
\* a candidate string
RuleMatches(body, st, parsing, i) ==
    /\ parsing.rules[i].original_status = st
    /\ parsing.rules[i].pattern # <<>>
    /\ \E t \in CandidateStrings(body, parsing) :
           Contains(LowerText(t), LowerText(parsing.rules[i].pattern))

\* C29: parse_and_recategorize returns the new status of the first rule, in
\* configuration order, whose original status is the observed status and whose
\* pattern occurs, in any letter case, in a candidate string, with recategorized
\* true; when there is no such rule, or parsing or recategorization is disabled,
\* it returns the observed status with recategorized false.
C29_FirstMatchingRuleWins ==
    ppc = "done" =>
        LET hits == {i \in 1..Len(pParsing.rules) : RuleMatches(pBody, pStatus, pParsing, i)}
        IN  IF pParsing.enabled /\ pParsing.recat_enabled /\ hits # {}
            THEN \E i \in hits :
                    /\ \A j \in hits : i <= j
                    /\ pOut.status = pParsing.rules[i].new_status
                    /\ pOut.recategorized
            ELSE pOut.status = pStatus /\ ~pOut.recategorized

\* C29: a 200 body whose two candidate strings match one rule each was given the
\* status of the rule that comes first in the configuration, the one matching the
\* second candidate
C29_Witness ==
    /\ ppc = "done" /\ pStatus = 200 /\ pBody.json
    /\ pParsing.paths = <<ErrorMessagePath, ChoiceTextPath(0)>>
    /\ pParsing.rules = <<RecatRule(<<"overloaded">>, 200, 429), RecatRule(<<"quota">>, 200, 503)>>
    /\ CandidateStrings(pBody, pParsing) = {<<"quota", "exceeded">>, <<"model", "is", "overloaded">>}
    /\ pOut.status = 429 /\ pOut.recategorized

\* C30: the extraction never fails and yields exactly the non-empty strings the
\* configured paths lead to: a path that meets a missing key, an index out of
\* range, or a value that is not an object or array where one is needed gives no
\* candidate, and so does a path that leads to a value that is not a string or to
\* an empty string.
C30_OnlyNonEmptyStringsExtracted ==
    (ppc = "done" /\ pBody.json /\ pParsing.enabled /\ pParsing.recat_enabled
        /\ pParsing.extraction_enabled) =>
        /\ \A i \in 1..Len(pOut.messages) :
               \E k \in 1..Len(pParsing.paths) :
                   PathGives(pBody.nodes, pParsing.paths[k], pOut.messages[i])
        /\ Len(pOut.messages) =
               Cardinality({k \in 1..Len(pParsing.paths) :
                   \E n \in 1..Len(pBody.nodes) :
                       PathGives(pBody.nodes, pParsing.paths[k], pBody.nodes[n].text)})

\* C30: for {"choices": [{"text": "model is overloaded"}]} the path
\* choices[1].text, whose index is out of range, and the path error.message, whose
\* key is missing, gave no candidate
C30_Witness ==
    /\ ppc = "done" /\ pBody.json /\ pParsing.enabled /\ pParsing.recat_enabled
    /\ pParsing.extraction_enabled
    /\ pBody.nodes[1] = JObject(<<"choices">>, <<2>>) /\ pBody.nodes[2].kind = "array"
    /\ pParsing.paths = <<ChoiceTextPath(1), ErrorMessagePath>>
    /\ pOut.messages = <<>>

-----------------------------------------------------------------------------
(* Two client requests served at the same time (SpecRequests): each call of *)
(* main.forward_request builds an ErrorHandler and a ProxyClient and runs   *)
(* retry_with_backoff; the steps of the two sequences interleave at the     *)
(* upstream exchanges and at the sleeps.                                    *)

\* the locals of one call of main.forward_request: the loop variable attempt of
\* retry_with_backoff, the retry_count argument of ProxyClient.forward_request,
\* last_exception, where the sequence stands, how it ended, and its events
Request(n, rc, at, last, res, tr) ==
    [attempt |-> n, retry_count |-> rc, pc |-> at, last_exception |-> last,
     result |-> res, trace |-> tr]

\* error_handler = ErrorHandler(...); proxy_client = ProxyClient(...); the first
\* iteration of the loop calls make_request
NewRequest == Request(1, -1, "exchange", NoOutcome, NoOutcome, <<Ev("call", 1)>>)

\* a variant in which the second request keeps its counters in the state of the
\* first; the independence property is sensitive to it
SharedState(i) == IF i = 2 THEN 1 ELSE i

\* the state a request keeps its counters in: its own locals
StateOf(i) == i

\* the upstream answers r to the pending exchange of sequence q: forward_request
\* re-issues the exchange, or ends and retry_with_backoff returns, raises or goes
\* to sleep
AfterExchange(q, r) ==
    LET o == forward_request(r, q.retry_count, cfg, FALSE) IN
    IF o.kind = "reissue"
    THEN [q EXCEPT !.retry_count = NextRetryCount(q.retry_count)]
    ELSE IF o.kind = "return"
    THEN [q EXCEPT !.pc = "done", !.result = o]
    ELSE LET d == BackoffDecision(o.exc, q.attempt) IN
         IF d.act = "raise"
         THEN [q EXCEPT !.pc = "done", !.result = Reraise(o), !.last_exception = o,
                        !.trace = q.trace \o d.logs]
         ELSE [q EXCEPT !.pc = "sleep", !.last_exception = o,
                        !.trace = q.trace \o d.logs]

\* time.sleep returns: the next iteration of the loop, or `raise last_exception`
AfterSleep(q) ==
    IF LoopContinues(q.attempt + 1)
    THEN [q EXCEPT !.attempt = q.attempt + 1, !.retry_count = -1, !.pc = "exchange",
                   !.trace = Append(q.trace, Ev("call", q.attempt + 1))]
    ELSE [q EXCEPT !.attempt = q.attempt + 1, !.pc = "done",
                   !.result = Reraise(q.last_exception)]

\* what the upstream answers in this scenario: a completion, a blank completion, a
\* retryable and a permanent failure
RequestResponses ==
    {r \in Responses :
        \/ (r.status = 200 /\ r.fmt = "completion" /\ r.content \in {<<"Hello", "world">>, <<>>})
        \/ (r.status \in {503, 400} /\ r.note = <<>>)}

\* two requests arrive; the server's ErrorHandler settings and error logger are
\* those of its configuration
InitRequests ==
    /\ requests = [i \in 1..2 |-> NewRequest]
    /\ actor = 0
    /\ mode = "backoff" /\ max_retries \in 0..MaxRetriesBound /\ hasLogger \in BOOLEAN
    /\ loggerRaises = FALSE /\ reply = NoReply /\ endpoint = "" /\ stream = FALSE
    /\ cfg \in {c \in Configs : ~c.present}
    /\ attempt = 0 /\ pc = "idle" /\ retry_count = -1 /\ resp = NoResponse
    /\ funcOutcome = NoOutcome /\ result = NoOutcome /\ trace = <<>> /\ delay = 0
    /\ exchanges = 0 /\ callExchanges = 0 /\ blankSeen = 0 /\ onlyRetryable = TRUE
    /\ hardStopAt = 0
    /\ IdleDelay /\ IdleRegex /\ IdleFiles /\ IdleParser /\ IdleBlank /\ IdleLogCall

\* the upstream answers the pending exchange of request i
RequestExchange(i) ==
    /\ requests[StateOf(i)].pc = "exchange"
    /\ \E r \in RequestResponses :
           requests' = [requests EXCEPT ![StateOf(i)] = AfterExchange(requests[StateOf(i)], r)]
    /\ actor' = i
    /\ UNCHANGED <<retryVars, delayVars, regexVars, fileVars, parserVars, blankVars, logCallVars>>

\* the sleep of request i is over
RequestWakes(i) ==
    /\ requests[StateOf(i)].pc = "sleep"
    /\ requests' = [requests EXCEPT ![StateOf(i)] = AfterSleep(requests[StateOf(i)])]
    /\ actor' = i
    /\ UNCHANGED <<retryVars, delayVars, regexVars, fileVars, parserVars, blankVars, logCallVars>>

NextRequests == \E i \in 1..2 : RequestExchange(i) \/ RequestWakes(i)

SpecRequests == InitRequests /\ [][NextRequests]_vars

\* what one retry sequence, running alone, may do next from state q
AloneSuccessors(q) ==
    IF q.pc = "exchange" THEN {AfterExchange(q, r) : r \in RequestResponses}
    ELSE IF q.pc = "sleep" THEN {AfterSleep(q)}
    ELSE {}

-----------------------------------------------------------------------------
(* Properties of one exchange of ProxyClient.forward_request (Spec).        *)

\* C31: the hard-stop payload nests the upstream diagnostics only when the rule
\* that matched has its preserve-original flag set: then the error and proxy_note
\* of a JSON body (the raw text of another body) are nested under original_error
\* and proxy_note; with the flag unset the payload carries only message, type and
\* code.
C31_DiagnosticsOnlyWhenPreserved ==
    (funcOutcome.kind = "return" /\ funcOutcome.vt = "hard_stop") =>
        LET rule == FirstHardStop(cfg.hard_stop.rules, resp).v
            payload == funcOutcome.payload
        IN  /\ payload.type = "hard_stop_error" /\ payload.code = "hard_stop_condition_met"
            /\ rule.preserve_original_response =>
                  /\ payload.has_original
                  /\ payload.original_error = (IF IsJson(resp) THEN resp.content ELSE RawText(resp))
                  /\ payload.has_note = (IsJson(resp) /\ resp.note # <<>>)
            /\ ~rule.preserve_original_response =>
                  ~payload.has_original /\ ~payload.has_note

\* C31: the state the code reaches instead - the rule that matched does not have
\* the flag, and the payload carries the original error and the proxy note of the
\* upstream body.
C31_DiagnosticsWithoutFlag ==
    /\ pc = "returned" /\ funcOutcome.kind = "return" /\ funcOutcome.vt = "hard_stop"
    /\ resp.status = 500
    /\ ~FirstHardStop(cfg.hard_stop.rules, resp).v.preserve_original_response
    /\ funcOutcome.payload.has_original
    /\ funcOutcome.payload.original_error = <<"internal", "error">>
    /\ funcOutcome.payload.has_note

\* ---------------------------------------------------------------------------
\* ProxyClient._is_blank_response as a pure function (SpecBlank)
\*
\* The response_json is any value json.loads can produce.  What matters to
\* _is_blank_response is recorded field by field: what kind of value stands
\* where the code looks, and the text or number where the code reads one.
\* ---------------------------------------------------------------------------

MaxTokens == 11

Content(kind, text, n) == [kind |-> kind, text |-> text, n |-> n]

ChatBody(shape, object, choices, message, content, finish, usage, tokens) ==
    [shape |-> shape, object |-> object, choices |-> choices, message |-> message,
     content |-> content, finish |-> finish, usage |-> usage, tokens |-> tokens]

\* `pattern.lower() in content_lower` compared as written, without lowering.
ContainsPatternCaseSensitive(text) ==
    \E p \in BLANK_RESPONSE_PATTERNS : Contains(text, p)

\* for pattern in BLANK_RESPONSE_PATTERNS: if pattern.lower() in content_lower
ContainsPattern(text) ==
    \E p \in BLANK_RESPONSE_PATTERNS : Contains(LowerText(text), LowerText(p))

\* `not content`: None, "", 0 and a missing key (default "") are falsy.
Falsy(content) ==
    \/ content.kind \in {"absent", "null"}
    \/ content.kind = "string" /\ content.text = <<>>
    \/ content.kind = "number" /\ content.n = 0

\* The second `if choices:` block: finish_reason and usage.completion_tokens.
InspectFinish(b) ==
    IF b.usage = "null" THEN "raise"                      \* None.get(...)
    ELSE LET completion_tokens ==
                 IF b.usage = "absent" \/ b.tokens.kind = "absent"
                 THEN Content("number", <<>>, 0) ELSE b.tokens
         IN  IF b.finish # "MAX_TOKENS" THEN "false"
             ELSE IF completion_tokens.kind # "number" THEN "raise"   \* "3" < 10
             ELSE IF completion_tokens.n < 10 THEN "true" ELSE "false"

\* The body of the try block: "true", "false", or "raise" when a statement of
\* it raises.
InspectBody(b) ==
    IF b.shape # "dict" THEN "raise"                      \* response_json.get
    ELSE IF b.object # "chat.completion" THEN "false"
    ELSE IF b.choices \in {"absent", "empty"} THEN "false"
    ELSE IF b.choices # "dict" THEN "raise"               \* choices[0].get
    ELSE IF b.message = "null" THEN "raise"               \* None.get
    ELSE LET content == IF b.message = "absent" THEN Content("absent", <<>>, 0)
                        ELSE b.content
         IN  IF Falsy(content) THEN "true"
             ELSE IF content.kind # "string" THEN "raise" \* content.strip
             ELSE IF IsWhitespaceOnly(content.text) THEN "true"
             ELSE IF ContainsPattern(content.text) THEN "true"
             ELSE InspectFinish(b)

\* _is_blank_response(response_json): `except Exception: return False`.
is_blank_response(b) == InspectBody(b) = "true"

BlankContents ==
    { Content("absent", <<>>, 0), Content("null", <<>>, 0),
      Content("number", <<>>, 0), Content("number", <<>>, 42) }
    \cup { Content("string", t, 0) :
             t \in { <<>>, <<" ">>, <<" ", " ">>, <<"Hello">>, <<"i", "Cannot", "help">>,
                     <<"the", "Safety", "filter">>, <<"I", "can">> } }

BlankTokens ==
    { Content("absent", <<>>, 0), Content("string", <<"3">>, 0) }
    \cup { Content("number", <<>>, n) : n \in {0} \cup 8..MaxTokens }

BlankBodies ==
    { ChatBody(shape, object, choices, message, content, finish, usage, tokens) :
        shape \in {"dict", "list"},
        object \in {"chat.completion", "list", "absent"},
        choices \in {"absent", "empty", "string", "dict"},
        message \in {"absent", "null", "dict"},
        content \in BlankContents,
        finish \in {"MAX_TOKENS", "stop", "absent"},
        usage \in {"absent", "null", "dict"},
        tokens \in BlankTokens }

InitBlank ==
    /\ bBody \in BlankBodies
    /\ bOut = FALSE
    /\ bpc = "check"
    /\ IdleRetry /\ IdleDelay /\ IdleRegex /\ IdleFiles /\ IdleParser /\ IdleRequests
    /\ IdleLogCall

CheckBlank ==
    /\ bpc = "check"
    /\ bOut' = is_blank_response(bBody)
    /\ bpc' = "done"
    /\ UNCHANGED <<bBody, retryVars, delayVars, regexVars, fileVars, parserVars,
                   requestVars, logCallVars>>

NextBlank == CheckBlank

SpecBlank == InitBlank /\ [][NextBlank]_vars

\* Vocabulary of C32.
InspectionRaises(b) == InspectBody(b) = "raise"

FirstChoiceContent(b) ==
    IF b.message = "dict" THEN b.content ELSE Content("absent", <<>>, 0)

EmptyOrWhitespaceContent(b) ==
    LET c == FirstChoiceContent(b)
    IN  Falsy(c) \/ (c.kind = "string" /\ \A i \in 1..Len(c.text) : c.text[i] = " ")

RefusalContent(b) ==
    LET c == FirstChoiceContent(b)
    IN  /\ c.kind = "string"
        /\ \E p \in BLANK_RESPONSE_PATTERNS :
               \E i \in 1..Len(c.text) :
                   /\ i + Len(p) - 1 <= Len(c.text)
                   /\ \A k \in 1..Len(p) : Lower(c.text[i + k - 1]) = Lower(p[k])

TruncatedAtOnce(b) ==
    /\ b.finish = "MAX_TOKENS"
    /\ (IF b.usage = "dict" /\ b.tokens.kind = "number" THEN b.tokens.n ELSE 0) < 10

\* C32: _is_blank_response returns True exactly for a body whose object is
\* "chat.completion", whose choices are non-empty, and whose first choice has
\* empty or whitespace-only content (a missing, null or zero content counts as
\* empty), or content holding one of the refusal phrases in any letter case, or
\* finish_reason "MAX_TOKENS" with fewer than 10 completion tokens (a missing
\* count is 0); a body of another object type, and a body whose inspection
\* raises, gives False.
C32_BlankExactly ==
    bpc = "done" =>
        bOut = ( /\ ~InspectionRaises(bBody)
                 /\ bBody.object = "chat.completion"
                 /\ bBody.choices = "dict"
                 /\ \/ EmptyOrWhitespaceContent(bBody)
                    \/ RefusalContent(bBody)
                    \/ TruncatedAtOnce(bBody) )

C32_Witness ==
    /\ bpc = "done" /\ bOut
    /\ bBody.shape = "dict" /\ bBody.object = "chat.completion" /\ bBody.choices = "dict"
    /\ bBody.message = "dict"
    /\ bBody.content = Content("string", <<"i", "Cannot", "help">>, 0)
    /\ bBody.finish = "stop"

\* C33: blank-completion detection evaluates the completion text as received
\* from upstream, response rewriting coming only after the exchange has been
\* driven to its final result: when the first exchange of an attempt returns a
\* completion body, with the whole blank budget still unused, the completion as
\* it was received is not a blank one.
C33_DetectionOnReceivedText ==
    ( /\ pc = "returned" /\ ~stream
      /\ funcOutcome.kind = "return" /\ funcOutcome.vt = "json"
      /\ resp.status = 200 /\ retry_count = -1 )
        => ~BlankCompletion(resp)

\* a refusal received from upstream is rewritten first, passes the blank guard as
\* rewritten, and is returned after a single exchange
C33_RewrittenBeforeDetection ==
    /\ pc = "returned" /\ ~stream
    /\ funcOutcome.kind = "return" /\ funcOutcome.vt = "json"
    /\ callExchanges = 1 /\ retry_count = -1
    /\ resp.status = 200 /\ resp.content = <<"I", "Cannot", "help">>
    /\ BlankCompletion(resp)
    /\ funcOutcome.body.content = <<"I", "can", "help">>
    /\ ~BlankCompletion(funcOutcome.body)

\* ---------------------------------------------------------------------------
\* Growth of the backoff delay (SpecDelay)
\* ---------------------------------------------------------------------------

\* C34: with base_delay > 0, whatever the two jitter draws, the delay computed for
\* attempt n + 1 is at least the delay computed for attempt n, and strictly
\* larger whenever the delay for attempt n + 1 is below max_delay.
C34_DelayGrows ==
    [][ (dBase > 0 /\ dAttempt >= 1 /\ dAttempt' = dAttempt + 1) =>
            /\ dResult' >= dResult
            /\ (dResult' < dMax * DelayUnit => dResult' > dResult) ]_vars

\* C34 witness: base_delay 1, max_delay 3: the delay of attempt 2 under the lowest
\* jitter, 1.5 seconds, is under the cap and above every delay of attempt 1, whose
\* largest is 1.25 seconds.
C34_Witness ==
    /\ dBase = 1 /\ dMax = 3 /\ dAttempt = 2 /\ dJitter = -JitterSteps
    /\ dResult = 6 * JitterSteps
    /\ dResult < dMax * DelayUnit
    /\ dResult > calculate_retry_delay(1, dBase, dMax, JitterSteps)

\* ---------------------------------------------------------------------------
\* Upstream exchanges of one client request (Spec)
\* ---------------------------------------------------------------------------

\* C35: every attempt of the coordinator starts forward_request without a blank
\* retry count, so that the count of blank re-issues restarts with the attempt: an
\* attempt makes at most 4 exchanges, and the exchange an attempt is about to make
\* carries the number of re-issues made in that attempt alone.  A failure raised by
\* a re-issued exchange is the failure of the attempt that re-issued it: it costs
\* one attempt and no more.  Hence the exchanges of one request number at most
\* 4 * (max_retries + 1).
C35_ExchangesBounded ==
    /\ pc = "exchange" =>
           retry_count = (IF callExchanges = 0 THEN -1 ELSE callExchanges)
    /\ callExchanges <= 4
    /\ (pc = "returned" /\ funcOutcome.kind = "raise") => Count("call") = attempt
    /\ exchanges <= 4 * Count("call")
    /\ Count("call") <= max_retries + 1
    /\ exchanges <= 4 * (max_retries + 1)

\* C35 witness: with max_retries = 2 the first two attempts each re-issue three
\* blank completions and fail retryably at the fourth exchange, and the third
\* attempt ends after its fourth blank completion: 12 exchanges in 3 attempts.
C35_Witness ==
    /\ pc = "done" /\ mode = "backoff" /\ max_retries = 2
    /\ Count("call") = 3 /\ Count("sleep") = 2
    /\ callExchanges = 4 /\ blankSeen = 4
    /\ exchanges = 12

\* the status of the exchange once forward_request has recategorized it
FinalStatus(r, c) ==
    RecategorizedStatus(IF c.present THEN parse_and_recategorize(r, r.status, c)
                        ELSE Recat(r.status, FALSE), r.status)

\* C36: for a request that is not streamed, forward_request returns a completion
\* body only for an exchange whose status after recategorization is below 400; an
\* exchange whose final status is an HTTP error status (400 to 599: the statuses
\* of Responses and of the recategorization rules) ends in a raised HTTP failure or
\* in a hard-stop payload, never in a returned body.
C36_BodyOnlyBelow400 ==
    (pc = "returned" /\ ~stream /\ resp # NoResponse) =>
        /\ (funcOutcome.kind = "return" /\ funcOutcome.vt = "json") =>
               /\ FinalStatus(resp, cfg) < 400
               /\ funcOutcome.body.status < 400
        /\ FinalStatus(resp, cfg) >= 400 =>
               \/ funcOutcome.kind = "raise" /\ funcOutcome.exc.exc = "HTTPError"
               \/ funcOutcome.kind = "return" /\ funcOutcome.vt = "hard_stop"

\* C36 witness: a 200 answer whose text a rule recategorizes to 429 ends in a
\* raised HTTP failure with status 429.
C36_Witness ==
    /\ pc = "returned" /\ ~stream
    /\ resp.status = 200 /\ resp.fmt = "completion"
    /\ FinalStatus(resp, cfg) = 429
    /\ funcOutcome = Raise(Exc("HTTPError", 429))

\* ---------------------------------------------------------------------------
\* The coordinator's last attempt (Spec)
\* ---------------------------------------------------------------------------

\* C37: the coordinator never waits after its last attempt: in retry_with_backoff
\* and in retry_with_conditional_logic, for every max_retries >= 0 and every
\* sequence of failures, a backoff sleep is followed by another call of the
\* attempt operation - the loop has an iteration left whenever the coordinator
\* sleeps - and a sequence that is over has slept fewer times than it has called,
\* so that the raise after the loop is never reached.
C37_NeverWaitsAfterLastAttempt ==
    /\ pc = "sleep" => LoopContinues(attempt + 1)
    /\ pc = "done" => Count("sleep") < Count("call")

\* retry_with_conditional_logic with max_retries = 0 has called once, got a 404
\* from the models endpoint, slept, and left the loop by the raise after it
C37_SleptAfterLastAttempt ==
    /\ pc = "done" /\ mode = "conditional" /\ max_retries = 0
    /\ endpoint = "models"
    /\ funcOutcome = Raise(Exc("HTTPError", 404))
    /\ Count("call") = 1 /\ Count("sleep") = 1
    /\ trace[Len(trace)] = Ev("sleep", 1)
    /\ result = Raise(Exc("HTTPError", 404))

\* ---------------------------------------------------------------------------
\* Streamed requests (Spec)
\* ---------------------------------------------------------------------------

\* C38: when stream = true, forward_request returns the raw upstream response
\* after exactly one exchange, whatever its status: no hard-stop payload, no
\* recategorized status, no rewritten body, no blank re-issue and no HTTP failure
\* raised from the status, so that the coordinator does not retry a streamed
\* exchange that was answered: the sequence ends with the first response.
C38_StreamReturnsRaw ==
    (stream /\ resp # NoResponse /\ pc \in {"returned", "sleep", "done"}) =>
        /\ funcOutcome = ReturnRaw(resp)
        /\ callExchanges = 1
        /\ funcOutcome.body.status = resp.status
        /\ funcOutcome.body.content = resp.content
        /\ pc # "sleep"
        /\ pc = "done" => result = ReturnRaw(resp) /\ Count("sleep") = attempt - 1

\* C38 witness: a streamed request whose only answer, a 500 that matches an
\* enabled hard-stop rule, is returned as it came, after one call.
C38_Witness ==
    /\ pc = "done" /\ stream /\ cfg.present /\ cfg.hard_stop.enabled
    /\ resp.status = 500 /\ resp.note # <<>>
    /\ result = ReturnRaw(resp)
    /\ exchanges = 1 /\ Count("call") = 1 /\ Count("sleep") = 0

\* ---------------------------------------------------------------------------
\* One call of ErrorLogger.log_error (SpecLogCall)
\*
\* The error handed to log_error is an exception (with or without a response
\* attached), an HTTP response object, or a bare integer status code, as the
\* Flask error handlers of main.py pass it.
\* ---------------------------------------------------------------------------

LoggedError(kind, name, status) == [kind |-> kind, name |-> name, status |-> status]

LoggedErrors ==
    { LoggedError("exception", "Timeout", 0), LoggedError("exception", "ValueError", 0),
      LoggedError("http_error", "HTTPError", 503),
      LoggedError("response", "Response", 404), LoggedError("response", "Response", 500),
      LoggedError("int", "int", 400), LoggedError("int", "int", 404),
      LoggedError("int", "int", 500) }

ErrorLoggers ==
    [enabled : BOOLEAN, include_stack_traces : BOOLEAN,
     include_request_context : BOOLEAN, include_timing : BOOLEAN]

\* retry_attempt = 0 stands for None
LogCalls ==
    [error : LoggedErrors, has_context : BOOLEAN, retry_attempt : 0..2,
     writable : BOOLEAN]

ErrorCode(kind, name, status) == [kind |-> kind, name |-> name, status |-> status]

\* _get_error_code(error)
get_error_code(error) ==
    IF error.kind \in {"int", "response"} THEN ErrorCode("status", "", error.status)
    ELSE ErrorCode("name", error.name, 0)

\* isinstance(error, Exception)
IsException(error) == error.kind \in {"exception", "http_error"}

\* _format_error_context(error, context): the keys of the dict it returns, or the
\* exception that leaves it; `f"HTTP {error.status_code}"` is evaluated for every
\* error that is not an exception
format_error_context(l, error, has_context) ==
    IF ~IsException(error) /\ error.kind # "response"
    THEN [kind |-> "raise", exc |-> "AttributeError", keys |-> {}]
    ELSE [kind |-> "return", exc |-> "none",
          keys |-> {"timestamp", "error_type", "error_message"}
                   \cup (IF l.include_timing THEN {"timestamp_unix"} ELSE {})
                   \cup (IF error.kind = "response"
                         THEN {"status_code", "status_text", "url", "headers",
                               "response_text"}
                         ELSE {})
                   \cup (IF IsException(error)
                         THEN {"exception_type", "exception_args"} ELSE {})
                   \cup (IF IsException(error) /\ l.include_stack_traces
                         THEN {"stack_trace"} ELSE {})
                   \cup (IF error.kind = "http_error"
                         THEN {"http_status_code", "http_status_text", "http_url",
                               "http_headers", "http_response_text"}
                         ELSE {})
                   \cup (IF has_context /\ l.include_request_context
                         THEN {"context"} ELSE {})]

LogOutcome(kind, path, exc, written) ==
    [kind |-> kind, path |-> path, exc |-> exc, written |-> written]

\* os.path.join(self.error_logs_folder, filename); <<>> is the empty string
LogPath(code) == <<"logs/errors", code>>

\* log_error(error, context, retry_attempt)
log_error(l, c) ==
    IF ~l.enabled THEN LogOutcome("return", <<>>, "none", {})
    ELSE LET error_code == get_error_code(c.error)
             error_context == format_error_context(l, c.error, c.has_context)
             keys == error_context.keys
                     \cup (IF c.retry_attempt # 0 THEN {"retry_attempt"} ELSE {})
         IN  IF error_context.kind = "raise"
             THEN LogOutcome("raise", <<>>, error_context.exc, {})
             ELSE IF c.writable
             THEN LogOutcome("return", LogPath(error_code), "none", keys)
             ELSE LogOutcome("return", <<>>, "none", {})

InitLogCall ==
    /\ eLogger \in ErrorLoggers
    /\ eCall \in LogCalls
    /\ eOut = LogOutcome("none", <<>>, "none", {})
    /\ epc = "call"
    /\ IdleRetry /\ IdleDelay /\ IdleRegex /\ IdleFiles /\ IdleParser /\ IdleRequests
    /\ IdleBlank

LogError ==
    /\ epc = "call"
    /\ eOut' = log_error(eLogger, eCall)
    /\ epc' = "done"
    /\ UNCHANGED <<eLogger, eCall, retryVars, delayVars, regexVars, fileVars,
                   parserVars, requestVars, blankVars>>

NextLogCall == LogError

SpecLogCall == InitLogCall /\ [][NextLogCall]_vars

=============================================================================
